---- MODULE Spec2Model ----
(***************************************************************************)
(* A model of the timeline analyzer: the normalizer (src/lib/timeline.ts), *)
(* the critical-path and parallelism engines (same file) and the           *)
(* classification engine (src/lib/classification.ts).                      *)
(*                                                                         *)
(* Conventions.                                                            *)
(*  - A nullable number (order, startTime, finishTime) is <<>> for null    *)
(*    and <<n>> for the number n; times are epoch milliseconds as          *)
(*    Date.getTime() returns them (the result of parseTimelineDate).       *)
(*  - A nullable string is "" for null: normalizeRecord and                *)
(*    toStringOrNull map a missing, non-string or empty value to null.     *)
(*  - nodesById is a finite map; `keys` is its key insertion order,        *)
(*    the order Object.values() iterates in (ids are not integer-like and  *)
(*    are not names of Object.prototype members).                          *)
(***************************************************************************)
EXTENDS Integers, Sequences, FiniteSets, TLC

VARIABLES
    pc,            \* position of the call in progress
    records,       \* the `records` array of the uploaded timeline
    graph,         \* normalizeTimeline's nodesById, rootIds, warnings, ...
    dfs,           \* assignDepths' locals: visited, inStack, the call stack
    activities,    \* the TimedActivity[] given to the engines
    criticalPath,  \* the result of computeCriticalPath
    coverage,      \* the result of computeCoverageAndConcurrency
    analysis,      \* the result of analyzeTimeline
    stepNode,      \* the node given to classifyNode
    rules,         \* the ordered rule list
    overrides,     \* the override map, node id -> category
    entry,         \* the result of classifyNode
    app,           \* the state of the App component (its useState cells)
    reads,         \* the file.text() promises that have not settled yet
    storage,       \* the localStorage item that holds the rule set
    priorityRules, \* the rules of CategoriesProvider, each with a priority
    matched        \* the result of matchCategory

vars == <<pc, records, graph, dfs, activities, criticalPath, coverage, analysis,
          stepNode, rules, overrides, entry, app, reads, storage,
          priorityRules, matched>>

timelineVars == <<records, graph, dfs>>
engineVars == <<activities, criticalPath, coverage>>
classifyVars == <<stepNode, rules, overrides, entry>>
appVars == <<app, reads, storage>>
categoriesVars == <<priorityRules, matched>>

\* ---------------------------------------------------------------- bounds
MaxRecords == 3
MaxActivities == 3
MaxTime == 4
MaxClock == 2
MaxRules == 2
MaxOrder == 2
MaxTick == 1
MaxReads == 2
MaxVersion == 2
MaxImports == 1
MaxRuleCount == 6
MaxTarget == 1

\* ------------------------------------------------------- general helpers
Null == <<>>
Some(x) == <<x>>
IsNull(v) == v = <<>>
Val(v) == v[1]

NoString == ""

Min(a, b) == IF a <= b THEN a ELSE b
Max(a, b) == IF a >= b THEN a ELSE b

Range(s) == {s[i] : i \in 1..Len(s)}

RECURSIVE SumSeq(_)
SumSeq(s) == IF s = <<>> THEN 0 ELSE Head(s) + SumSeq(Tail(s))

\* Array.prototype.sort with a comparator: a stable sort (an element is
\* inserted after every element that does not compare greater than it).
\* cmp[<<x, y>>] is the comparator's result on x and y.
RECURSIVE insertSorted(_, _, _)
insertSorted(sorted, x, cmp) ==
    IF sorted = <<>> THEN <<x>>
    ELSE LET last == sorted[Len(sorted)] IN
         IF cmp[<<last, x>>] > 0
         THEN Append(insertSorted(SubSeq(sorted, 1, Len(sorted) - 1), x, cmp), last)
         ELSE Append(sorted, x)

RECURSIVE sortFrom(_, _, _, _)
sortFrom(s, i, acc, cmp) ==
    IF i > Len(s) THEN acc
    ELSE sortFrom(s, i + 1, insertSorted(acc, s[i], cmp), cmp)

sortArray(s, cmp) == sortFrom(s, 1, <<>>, cmp)

\* ---------------------------------------------------------------- strings
\* The strings of the model and their collation (String.localeCompare).
Collation == <<" ", "a", "b", "c", "d">>
CollationRank(s) == CHOOSE i \in 1..Len(Collation) : Collation[i] = s

Sign(n) == IF n < 0 THEN -1 ELSE IF n > 0 THEN 1 ELSE 0

localeCompare(a, b) == Sign(CollationRank(a) - CollationRank(b))

\* String.prototype.trim on the strings of the model
trim(s) == IF s = " " THEN "" ELSE s

\* ------------------------------------------------------------ normalizer
\* The types that begin with CHECKPOINT_PREFIX, among the types of the model
CheckpointPrefixed == {"Checkpoint.Approval"}

isStepLikeType(type) ==
    type = "Task" \/ type = "Checkpoint" \/ type \in CheckpointPrefixed

computeDuration(startTime, finishTime) ==
    IF IsNull(startTime) \/ IsNull(finishTime) THEN 0
    ELSE Max(0, Val(finishTime) - Val(startTime))

\* normalizeRecord: <<>> for a record without a valid id, else <<node>>
normalizeRecord(record) ==
    IF trim(record.id) = "" THEN Null
    ELSE Some([id         |-> record.id,
               parentId   |-> record.parentId,
               type       |-> IF record.type # "" THEN record.type ELSE "Unknown",
               name       |-> IF record.name # "" THEN record.name ELSE record.id,
               order      |-> record.order,
               startTime  |-> record.startTime,
               finishTime |-> record.finishTime,
               durationMs |-> computeDuration(record.startTime, record.finishTime),
               childIds   |-> <<>>,
               depth      |-> 0])

Warning(kind, id, ref) == [kind |-> kind, id |-> id, ref |-> ref]

EmptyGraph ==
    [keys      |-> <<>>,
     nodesById |-> <<>>,
     rootIds   |-> <<>>,
     nodes     |-> <<>>,
     leafIds   |-> <<>>,
     stageIds  |-> <<>>,
     jobIds    |-> <<>>,
     stepIds   |-> <<>>,
     dependencyEdges |-> <<>>,
     warnings  |-> <<>>]

HasNode(g, id) == id \in DOMAIN g.nodesById

\* acceptRecords with the duplicate overwriting the accepted node (last id wins)
RECURSIVE acceptRecordsLastWins(_, _, _)
acceptRecordsLastWins(recs, i, g) ==
    IF i > Len(recs) THEN g
    ELSE LET normalized == normalizeRecord(recs[i]) IN
         IF IsNull(normalized)
         THEN acceptRecordsLastWins(recs, i + 1,
                  [g EXCEPT !.warnings = Append(@, Warning("noValidId", "", ""))])
         ELSE LET node == Val(normalized) IN
              IF HasNode(g, node.id)
              THEN acceptRecordsLastWins(recs, i + 1,
                       [g EXCEPT !.warnings = Append(@, Warning("duplicateId", node.id, "")),
                                 !.nodesById[node.id] = node])
              ELSE acceptRecordsLastWins(recs, i + 1,
                       [g EXCEPT !.keys = Append(@, node.id),
                                 !.nodesById = (node.id :> node) @@ @])

\* normalizeTimeline, first loop: accept the records, first id wins
RECURSIVE acceptRecords(_, _, _)
acceptRecords(recs, i, g) ==
    IF i > Len(recs) THEN g
    ELSE LET normalized == normalizeRecord(recs[i]) IN
         IF IsNull(normalized)
         THEN acceptRecords(recs, i + 1,
                  [g EXCEPT !.warnings = Append(@, Warning("noValidId", "", ""))])
         ELSE LET node == Val(normalized) IN
              IF HasNode(g, node.id)
              THEN acceptRecords(recs, i + 1,
                       [g EXCEPT !.warnings = Append(@, Warning("duplicateId", node.id, ""))])
              ELSE acceptRecords(recs, i + 1,
                       [g EXCEPT !.keys = Append(@, node.id),
                                 !.nodesById = (node.id :> node) @@ @])

\* linkParents that warns about a missing parent but keeps the reference
RECURSIVE linkParentsKeepDangling(_, _)
linkParentsKeepDangling(g, i) ==
    IF i > Len(g.keys) THEN g
    ELSE LET node == g.nodesById[g.keys[i]] IN
         IF node.parentId = NoString THEN linkParentsKeepDangling(g, i + 1)
         ELSE IF ~HasNode(g, node.parentId)
         THEN linkParentsKeepDangling(
                  [g EXCEPT !.warnings = Append(@, Warning("missingParent", node.id, node.parentId))],
                  i + 1)
         ELSE linkParentsKeepDangling(
                  [g EXCEPT !.nodesById[node.parentId].childIds = Append(@, node.id)],
                  i + 1)

\* linkParents that does not list a node among its own children
RECURSIVE linkParentsSkipSelf(_, _)
linkParentsSkipSelf(g, i) ==
    IF i > Len(g.keys) THEN g
    ELSE LET node == g.nodesById[g.keys[i]] IN
         IF node.parentId = NoString \/ node.parentId = node.id
         THEN linkParentsSkipSelf(g, i + 1)
         ELSE IF ~HasNode(g, node.parentId)
         THEN linkParentsSkipSelf(
                  [g EXCEPT !.warnings = Append(@, Warning("missingParent", node.id, node.parentId)),
                            !.nodesById[node.id].parentId = NoString],
                  i + 1)
         ELSE linkParentsSkipSelf(
                  [g EXCEPT !.nodesById[node.parentId].childIds = Append(@, node.id)],
                  i + 1)

\* normalizeTimeline, second loop: link each node to its parent
RECURSIVE linkParents(_, _)
linkParents(g, i) ==
    IF i > Len(g.keys) THEN g
    ELSE LET node == g.nodesById[g.keys[i]] IN
         IF node.parentId = NoString THEN linkParents(g, i + 1)
         ELSE IF ~HasNode(g, node.parentId)
         THEN linkParents(
                  [g EXCEPT !.warnings = Append(@, Warning("missingParent", node.id, node.parentId)),
                            !.nodesById[node.id].parentId = NoString],
                  i + 1)
         ELSE linkParents(
                  [g EXCEPT !.nodesById[node.parentId].childIds = Append(@, node.id)],
                  i + 1)

compareNodes(left, right) ==
    IF ~IsNull(left.order) /\ ~IsNull(right.order) /\ Val(left.order) # Val(right.order)
    THEN Sign(Val(left.order) - Val(right.order))
    ELSE IF left.startTime # right.startTime
    THEN (IF IsNull(left.startTime) THEN 1
          ELSE IF IsNull(right.startTime) THEN -1
          ELSE Sign(Val(left.startTime) - Val(right.startTime)))
    ELSE IF left.finishTime # right.finishTime
    THEN (IF IsNull(left.finishTime) THEN 1
          ELSE IF IsNull(right.finishTime) THEN -1
          ELSE Sign(Val(left.finishTime) - Val(right.finishTime)))
    ELSE localeCompare(left.name, right.name)

\* ids sorted by compareNodes on the nodes they name
SortIds(g, ids) ==
    LET cmp == [p \in Range(ids) \X Range(ids) |->
                   compareNodes(g.nodesById[p[1]], g.nodesById[p[2]])]
    IN sortArray(ids, cmp)

\* normalizeTimeline, third loop: sort every child list
sortChildren(g) ==
    [g EXCEPT !.nodesById =
        [id \in DOMAIN g.nodesById |->
            [g.nodesById[id] EXCEPT !.childIds = SortIds(g, @)]]]

computeRootIds(g) ==
    LET IsRoot(id) == g.nodesById[id].parentId = NoString
    IN SortIds(g, SelectSeq(g.keys, IsRoot))

\* normalizeTimeline up to the call of assignDepths
linkTimeline(recs) ==
    LET linked == sortChildren(linkParents(acceptRecords(recs, 1, EmptyGraph), 1))
    IN [linked EXCEPT !.rootIds = computeRootIds(linked)]

\* ---------------------------------------------------------- assignDepths
\* The state of assignDepths: the graph it mutates (depth, warnings) and its
\* locals. stack holds the active calls of dfs, innermost last; index is the
\* position of a call's for-loop over node.childIds.
DfsStart ==
    [phase   |-> "roots",
     visited |-> {},
     inStack |-> {},
     stack   |-> <<>>,
     rootIdx |-> 1,
     keyIdx  |-> 1]

DfsIdle ==
    [phase   |-> "idle",
     visited |-> {},
     inStack |-> {},
     stack   |-> <<>>,
     rootIdx |-> 1,
     keyIdx  |-> 1]

\* dfsEnter without the inStack test
dfsEnterNoStackTest(s, nodeId, depth) ==
    IF ~HasNode(s.graph, nodeId) THEN s
    ELSE IF nodeId \in s.dfs.visited
    THEN [s EXCEPT !.graph.nodesById[nodeId].depth = Min(@, depth)]
    ELSE [s EXCEPT !.dfs.visited = @ \cup {nodeId},
                   !.dfs.inStack = @ \cup {nodeId},
                   !.graph.nodesById[nodeId].depth = depth,
                   !.dfs.stack = Append(@, [nodeId |-> nodeId, depth |-> depth, index |-> 1])]

\* A call dfs(nodeId, depth), up to the start of its loop over the children
dfsEnter(s, nodeId, depth) ==
    IF ~HasNode(s.graph, nodeId) THEN s
    ELSE IF nodeId \in s.dfs.inStack
    THEN [s EXCEPT !.graph.warnings = Append(@, Warning("cycle", nodeId, ""))]
    ELSE IF nodeId \in s.dfs.visited
    THEN [s EXCEPT !.graph.nodesById[nodeId].depth = Min(@, depth)]
    ELSE [s EXCEPT !.dfs.visited = @ \cup {nodeId},
                   !.dfs.inStack = @ \cup {nodeId},
                   !.graph.nodesById[nodeId].depth = depth,
                   !.dfs.stack = Append(@, [nodeId |-> nodeId, depth |-> depth, index |-> 1])]

\* One step of the innermost active call: call dfs on the next child, or return
dfsContinue(s) ==
    LET top  == s.dfs.stack[Len(s.dfs.stack)]
        node == s.graph.nodesById[top.nodeId]
    IN IF top.index <= Len(node.childIds)
       THEN dfsEnter([s EXCEPT !.dfs.stack[Len(s.dfs.stack)].index = @ + 1],
                     node.childIds[top.index], top.depth + 1)
       ELSE [s EXCEPT !.dfs.inStack = @ \ {top.nodeId},
                      !.dfs.stack = SubSeq(@, 1, Len(@) - 1)]

\* The fallback loop over Object.values(nodesById), from position keyIdx
RECURSIVE fallbackLoop(_)
fallbackLoop(s) ==
    IF s.dfs.keyIdx > Len(s.graph.keys)
    THEN [s EXCEPT !.dfs.phase = "done"]
    ELSE LET id == s.graph.keys[s.dfs.keyIdx]
             next == [s EXCEPT !.dfs.keyIdx = @ + 1, !.dfs.phase = "fallback"]
         IN IF id \in s.dfs.visited
            THEN fallbackLoop(next)
            ELSE dfsEnter([next EXCEPT !.graph.warnings = Append(@, Warning("disconnected", id, ""))],
                          id, 0)

\* One step of assignDepths
assignDepthsStep(s) ==
    IF s.dfs.stack # <<>> THEN dfsContinue(s)
    ELSE IF s.dfs.phase = "roots" /\ s.dfs.rootIdx <= Len(s.graph.rootIds)
    THEN dfsEnter([s EXCEPT !.dfs.rootIdx = @ + 1], s.graph.rootIds[s.dfs.rootIdx], 0)
    ELSE fallbackLoop(s)

\* assignDepths run to its return
RECURSIVE assignDepths(_)
assignDepths(s) ==
    IF s.dfs.phase = "done" THEN s ELSE assignDepths(assignDepthsStep(s))

\* ------------------------------------------------------- dependency edges
\* addEdge: no self-loop, and one edge per (from, to) whatever its reason;
\* the dedupe set holds the key `from->to` of every edge pushed so far
addEdge(edges, from, to, reason) ==
    IF from = to THEN edges
    ELSE IF \E i \in 1..Len(edges) : edges[i].from = from /\ edges[i].to = to
    THEN edges
    ELSE Append(edges, [from |-> from, to |-> to, reason |-> reason])

\* shouldAddSequentialEdge with the timed test on the start times of both
shouldAddSequentialEdgeByStarts(left, right) ==
    IF ~IsNull(left.startTime) /\ ~IsNull(right.startTime)
    THEN Val(left.startTime) <= Val(right.startTime)
    ELSE IF ~IsNull(left.order) /\ ~IsNull(right.order)
    THEN Val(left.order) < Val(right.order)
    ELSE TRUE

\* shouldAddSequentialEdge with the order test before the timed test
shouldAddSequentialEdgeOrderFirst(left, right) ==
    IF ~IsNull(left.order) /\ ~IsNull(right.order)
    THEN Val(left.order) < Val(right.order)
    ELSE IF ~IsNull(left.finishTime) /\ ~IsNull(right.startTime)
    THEN Val(left.finishTime) <= Val(right.startTime)
    ELSE TRUE

shouldAddSequentialEdge(left, right) ==
    IF ~IsNull(left.finishTime) /\ ~IsNull(right.startTime)
    THEN Val(left.finishTime) <= Val(right.startTime)
    ELSE IF ~IsNull(left.order) /\ ~IsNull(right.order)
    THEN Val(left.order) < Val(right.order)
    ELSE TRUE

\* buildDependencyEdges, first inner loop: the edges to the children
RECURSIVE addChildEdges(_, _, _)
addChildEdges(node, i, edges) ==
    IF i > Len(node.childIds) THEN edges
    ELSE addChildEdges(node, i + 1, addEdge(edges, node.id, node.childIds[i], "parent-child"))

\* buildDependencyEdges, second inner loop: index is the code's 0-based index
RECURSIVE addSiblingEdges(_, _, _, _)
addSiblingEdges(g, node, index, edges) ==
    IF ~(index < Len(node.childIds) - 1) THEN edges
    ELSE LET currentId == node.childIds[index + 1]
             nextId    == node.childIds[index + 2]
         IN IF ~HasNode(g, currentId) \/ ~HasNode(g, nextId)
            THEN addSiblingEdges(g, node, index + 1, edges)
            ELSE IF ~shouldAddSequentialEdge(g.nodesById[currentId], g.nodesById[nextId])
            THEN addSiblingEdges(g, node, index + 1, edges)
            ELSE addSiblingEdges(g, node, index + 1,
                                 addEdge(edges, currentId, nextId, "sibling-order"))

\* buildDependencyEdges, outer loop over Object.values(nodesById)
RECURSIVE edgesFrom(_, _, _)
edgesFrom(g, k, edges) ==
    IF k > Len(g.keys) THEN edges
    ELSE LET node == g.nodesById[g.keys[k]]
         IN edgesFrom(g, k + 1, addSiblingEdges(g, node, 0, addChildEdges(node, 1, edges)))

buildDependencyEdges(g) == edgesFrom(g, 1, <<>>)

\* normalizeTimeline after assignDepths: the sorted node list and the id lists
finishGraph(g) ==
    LET nodes == SortIds(g, g.keys)
        IsLeaf(id)  == g.nodesById[id].childIds = <<>>
        IsStage(id) == g.nodesById[id].type = "Stage"
        IsJob(id)   == g.nodesById[id].type = "Job"
        IsStep(id)  == isStepLikeType(g.nodesById[id].type)
    IN [g EXCEPT !.nodes    = nodes,
                 !.leafIds  = SelectSeq(nodes, IsLeaf),
                 !.stageIds = SelectSeq(nodes, IsStage),
                 !.jobIds   = SelectSeq(nodes, IsJob),
                 !.stepIds  = SelectSeq(nodes, IsStep),
                 !.dependencyEdges = buildDependencyEdges(g)]

\* normalizeTimeline, run from entry to return
normalizeTimeline(recs) ==
    finishGraph(assignDepths([graph |-> linkTimeline(recs), dfs |-> DfsStart]).graph)


\* ------------------------------------------------------ critical path engine
Activity(id, startMs, finishMs) ==
    [id |-> id, startMs |-> startMs, finishMs |-> finishMs,
     durationMs |-> finishMs - startMs]

\* The comparator of computeCriticalPath's sort: finish, then start
compareActivities(left, right) ==
    IF left.finishMs # right.finishMs
    THEN Sign(left.finishMs - right.finishMs)
    ELSE Sign(left.startMs - right.startMs)

orderActivities(acts) ==
    sortArray(acts, [p \in Range(acts) \X Range(acts) |-> compareActivities(p[1], p[2])])

\* The binary search of previousIndexes with a strict test (finish < start)
RECURSIVE searchPreviousStrict(_, _, _, _, _)
searchPreviousStrict(ordered, startMs, low, high, answer) ==
    IF low > high THEN answer
    ELSE LET middle == (low + high) \div 2 IN
         IF ordered[middle + 1].finishMs < startMs
         THEN searchPreviousStrict(ordered, startMs, middle + 1, high, middle)
         ELSE searchPreviousStrict(ordered, startMs, low, middle - 1, answer)

\* The binary search of previousIndexes; low, high, middle and answer are
\* the 0-based indexes of the code, -1 for no predecessor
RECURSIVE searchPrevious(_, _, _, _, _)
searchPrevious(ordered, startMs, low, high, answer) ==
    IF low > high THEN answer
    ELSE LET middle == (low + high) \div 2 IN
         IF ordered[middle + 1].finishMs <= startMs
         THEN searchPrevious(ordered, startMs, middle + 1, high, middle)
         ELSE searchPrevious(ordered, startMs, low, middle - 1, answer)

\* previousIndexes[index], index 0-based, kept at position index + 1
previousIndexes(ordered) ==
    [i \in 1..Len(ordered) |-> searchPrevious(ordered, ordered[i].startMs, 0, i - 2, -1)]

\* The dynamic program with a strict test: a tie excludes the activity
RECURSIVE fillBestStrict(_, _, _, _)
fillBestStrict(ordered, previous, index, table) ==
    IF index > Len(ordered) THEN table
    ELSE LET activity     == ordered[index]
             includeValue == activity.durationMs + table.best[previous[index] + 1 + 1]
             excludeValue == table.best[index - 1 + 1]
         IN IF includeValue > excludeValue
            THEN fillBestStrict(ordered, previous, index + 1,
                     [best   |-> Append(table.best, includeValue),
                      choose |-> Append(table.choose, TRUE)])
            ELSE fillBestStrict(ordered, previous, index + 1,
                     [best   |-> Append(table.best, excludeValue),
                      choose |-> Append(table.choose, FALSE)])

\* The dynamic program: best[k] and choose[k], k in 0..n, at position k + 1
RECURSIVE fillBest(_, _, _, _)
fillBest(ordered, previous, index, table) ==
    IF index > Len(ordered) THEN table
    ELSE LET activity     == ordered[index]
             includeValue == activity.durationMs + table.best[previous[index] + 1 + 1]
             excludeValue == table.best[index - 1 + 1]
         IN IF includeValue >= excludeValue
            THEN fillBest(ordered, previous, index + 1,
                     [best   |-> Append(table.best, includeValue),
                      choose |-> Append(table.choose, TRUE)])
            ELSE fillBest(ordered, previous, index + 1,
                     [best   |-> Append(table.best, excludeValue),
                      choose |-> Append(table.choose, FALSE)])

bestTable(ordered) ==
    fillBest(ordered, previousIndexes(ordered), 1, [best |-> <<0>>, choose |-> <<FALSE>>])

\* walkChoices stepping to index - 1 after a chosen activity
RECURSIVE walkChoicesStepByOne(_, _, _, _, _)
walkChoicesStepByOne(ordered, previous, choose, index, pathIds) ==
    IF index <= 0 THEN pathIds
    ELSE IF choose[index + 1]
    THEN walkChoicesStepByOne(ordered, previous, choose, index - 1,
             Append(pathIds, ordered[index].id))
    ELSE walkChoicesStepByOne(ordered, previous, choose, index - 1, pathIds)

\* The backward walk over choose; pathIds in the order they are pushed
RECURSIVE walkChoices(_, _, _, _, _)
walkChoices(ordered, previous, choose, index, pathIds) ==
    IF index <= 0 THEN pathIds
    ELSE IF choose[index + 1]
    THEN walkChoices(ordered, previous, choose, previous[index] + 1,
             Append(pathIds, ordered[index].id))
    ELSE walkChoices(ordered, previous, choose, index - 1, pathIds)

\* Array.prototype.reverse
reverse(s) == [i \in 1..Len(s) |-> s[Len(s) - i + 1]]

computeCriticalPath(acts) ==
    IF Len(acts) = 0
    THEN [nodeIds |-> <<>>, durationMs |-> 0, explanation |-> "noTimedRecords"]
    ELSE LET ordered  == orderActivities(acts)
             previous == previousIndexes(ordered)
             table    == bestTable(ordered)
         IN [nodeIds     |-> reverse(walkChoices(ordered, previous, table.choose,
                                                 Len(ordered), <<>>)),
             durationMs  |-> table.best[Len(ordered) + 1],
             explanation |-> "longestChain"]

\* --------------------------------------------------------- parallelism engine
Event(timestamp, delta) == [timestamp |-> timestamp, delta |-> delta]

\* The events of the sweep, a start and a finish per activity, in array order
RECURSIVE activityEvents(_)
activityEvents(acts) ==
    IF acts = <<>> THEN <<>>
    ELSE <<Event(Head(acts).startMs, 1), Event(Head(acts).finishMs, -1)>>
            \o activityEvents(Tail(acts))

\* The comparator of the sweep's sort: timestamp, then right.delta - left.delta
compareEvents(left, right) ==
    IF left.timestamp # right.timestamp
    THEN Sign(left.timestamp - right.timestamp)
    ELSE Sign(right.delta - left.delta)

sortEvents(events) ==
    sortArray(events, [p \in Range(events) \X Range(events) |-> compareEvents(p[1], p[2])])

\* The sweep that counts the time between two events whether or not an
\* activity is running
RECURSIVE sweepCountingGaps(_, _, _)
sweepCountingGaps(events, i, s) ==
    IF i > Len(events) THEN s
    ELSE LET event == events[i]
             covered == IF event.timestamp > s.previousTimestamp
                        THEN s.coveredMs + (event.timestamp - s.previousTimestamp)
                        ELSE s.coveredMs
             active == s.activeCount + event.delta
         IN sweepCountingGaps(events, i + 1,
                [coveredMs         |-> covered,
                 activeCount       |-> active,
                 maxConcurrency    |-> Max(s.maxConcurrency, active),
                 previousTimestamp |-> event.timestamp])

RECURSIVE sweep(_, _, _)
sweep(events, i, s) ==
    IF i > Len(events) THEN s
    ELSE LET event == events[i]
             covered == IF event.timestamp > s.previousTimestamp /\ s.activeCount > 0
                        THEN s.coveredMs + (event.timestamp - s.previousTimestamp)
                        ELSE s.coveredMs
             active == s.activeCount + event.delta
         IN sweep(events, i + 1,
                [coveredMs         |-> covered,
                 activeCount       |-> active,
                 maxConcurrency    |-> Max(s.maxConcurrency, active),
                 previousTimestamp |-> event.timestamp])

computeCoverageAndConcurrency(acts) ==
    LET events == sortEvents(activityEvents(acts))
        final  == sweep(events, 1,
                      [coveredMs         |-> 0,
                       activeCount       |-> 0,
                       maxConcurrency    |-> 0,
                       previousTimestamp |-> IF events = <<>> THEN 0 ELSE events[1].timestamp])
    IN [coveredMs |-> final.coveredMs, maxConcurrency |-> final.maxConcurrency]

\* ------------------------------------------------------------ metrics engine
HasBothTimes(node) == ~IsNull(node.startTime) /\ ~IsNull(node.finishTime)

\* findTimelineRange with the latest start taken for the end of the range
findTimelineRangeByStarts(g, ids) ==
    LET timed == {id \in Range(ids) : HasBothTimes(g.nodesById[id])}
    IN IF timed = {} THEN Null
       ELSE Some([minStartMs  |-> CHOOSE m \in {Val(g.nodesById[id].startTime) : id \in timed} :
                                     \A id \in timed : m <= Val(g.nodesById[id].startTime),
                  maxFinishMs |-> CHOOSE m \in {Val(g.nodesById[id].startTime) : id \in timed} :
                                     \A id \in timed : m >= Val(g.nodesById[id].startTime)])

\* findTimelineRange: the earliest start and the latest finish of the nodes
\* that have both times, null when there is none
findTimelineRange(g, ids) ==
    LET timed == {id \in Range(ids) : HasBothTimes(g.nodesById[id])}
    IN IF timed = {} THEN Null
       ELSE Some([minStartMs  |-> CHOOSE m \in {Val(g.nodesById[id].startTime) : id \in timed} :
                                     \A id \in timed : m <= Val(g.nodesById[id].startTime),
                  maxFinishMs |-> CHOOSE m \in {Val(g.nodesById[id].finishTime) : id \in timed} :
                                     \A id \in timed : m >= Val(g.nodesById[id].finishTime)])

\* findEarliestDescendantStepStart: the loop over its stack
RECURSIVE earliestStepStartLoop(_, _, _, _)
earliestStepStartLoop(g, stack, visited, earliest) ==
    IF stack = <<>> THEN earliest
    ELSE LET nextId == stack[Len(stack)]
             rest   == SubSeq(stack, 1, Len(stack) - 1)
         IN IF nextId \in visited \/ ~HasNode(g, nextId)
            THEN earliestStepStartLoop(g, rest, visited \cup {nextId}, earliest)
            ELSE LET node == g.nodesById[nextId]
                     found == IF isStepLikeType(node.type) /\ ~IsNull(node.startTime)
                              THEN IF IsNull(earliest) THEN node.startTime
                                   ELSE Some(Min(Val(earliest), Val(node.startTime)))
                              ELSE earliest
                 IN earliestStepStartLoop(g, rest \o node.childIds,
                                          visited \cup {nextId}, found)

\* findEarliestDescendantStepStart that looks at the direct children only
findEarliestChildStepStart(g, rootId) ==
    LET starts == {Val(g.nodesById[id].startTime) :
                      id \in {c \in Range(g.nodesById[rootId].childIds) :
                                 /\ isStepLikeType(g.nodesById[c].type)
                                 /\ ~IsNull(g.nodesById[c].startTime)}}
    IN IF starts = {} THEN Null
       ELSE Some(CHOOSE m \in starts : \A s \in starts : m <= s)

findEarliestDescendantStepStart(g, rootId) ==
    earliestStepStartLoop(g, g.nodesById[rootId].childIds, {}, Null)

jobWait(g, jobId) ==
    LET job == g.nodesById[jobId] IN
    IF IsNull(job.startTime) THEN 0
    ELSE LET stepStart == findEarliestDescendantStepStart(g, jobId) IN
         IF IsNull(stepStart) THEN 0
         ELSE Max(0, Val(stepStart) - Val(job.startTime))

computeJobWaits(g) == [jobId \in Range(g.jobIds) |-> jobWait(g, jobId)]

computeNoWaitWallClock(g, jobWaitById) ==
    LET timed == {id \in Range(g.jobIds) : HasBothTimes(g.nodesById[id])}
        adjustedStart(id)  == Val(g.nodesById[id].startTime) - jobWaitById[id]
        adjustedFinish(id) == Val(g.nodesById[id].finishTime) - jobWaitById[id]
    IN IF timed = {} THEN 0
       ELSE LET minAdjustedStart  == CHOOSE m \in {adjustedStart(id) : id \in timed} :
                                        \A id \in timed : m <= adjustedStart(id)
                maxAdjustedFinish == CHOOSE m \in {adjustedFinish(id) : id \in timed} :
                                        \A id \in timed : m >= adjustedFinish(id)
            IN Max(0, maxAdjustedFinish - minAdjustedStart)

SumDurations(g, ids) == SumSeq([i \in 1..Len(ids) |-> g.nodesById[ids[i]].durationMs])

computePipelineMetrics(g) ==
    LET range == findTimelineRange(g, g.nodes)
        wallClockDurationMs ==
            IF IsNull(range) THEN 0
            ELSE Max(0, Val(range).maxFinishMs - Val(range).minStartMs)
        jobWaitById == computeJobWaits(g)
    IN [wallClockDurationMs      |-> wallClockDurationMs,
        totalStepRuntimeMs       |-> SumDurations(g, g.stepIds),
        machineWaitDurationMs    |-> SumSeq([i \in 1..Len(g.jobIds) |-> jobWaitById[g.jobIds[i]]]),
        machineRunningDurationMs |-> SumDurations(g, g.jobIds),
        shortestNoWaitDurationMs |-> computeNoWaitWallClock(g, jobWaitById),
        jobWaitById              |-> jobWaitById]

\* buildTimedActivities without the test of the duration
buildTimedActivitiesAnyDuration(g, ids) ==
    LET Qualifies(id) == HasNode(g, id) /\ HasBothTimes(g.nodesById[id])
        kept == SelectSeq(ids, Qualifies)
    IN [i \in 1..Len(kept) |->
           [id         |-> kept[i],
            startMs    |-> Val(g.nodesById[kept[i]].startTime),
            finishMs   |-> Val(g.nodesById[kept[i]].finishTime),
            durationMs |-> g.nodesById[kept[i]].durationMs]]

\* buildTimedActivities: the nodes with both times and a positive duration
buildTimedActivities(g, ids) ==
    LET Qualifies(id) ==
            /\ HasNode(g, id)
            /\ HasBothTimes(g.nodesById[id])
            /\ g.nodesById[id].durationMs > 0
        kept == SelectSeq(ids, Qualifies)
    IN [i \in 1..Len(kept) |->
           [id         |-> kept[i],
            startMs    |-> Val(g.nodesById[kept[i]].startTime),
            finishMs   |-> Val(g.nodesById[kept[i]].finishTime),
            durationMs |-> g.nodesById[kept[i]].durationMs]]

\* A quotient num / den of two numbers, den > 0
Ratio(num, den) == [num |-> num, den |-> den]

\* Math.min(1, num / den)
RatioCappedAtOne(num, den) == IF num >= den THEN Ratio(1, 1) ELSE Ratio(num, den)

computeParallelization(acts, wallClockDurationMs, criticalPathDurationMs) ==
    IF Len(acts) = 0 \/ wallClockDurationMs <= 0
    THEN [averageConcurrency    |-> Ratio(0, 1),
          maxConcurrency        |-> 0,
          criticalPathRatio     |-> Ratio(0, 1),
          timelineCoverageRatio |-> Ratio(0, 1),
          idleWallClockMs       |-> 0,
          coveredMs             |-> 0,
          enoughData            |-> FALSE]
    ELSE LET totalRuntimeMs == SumSeq([i \in 1..Len(acts) |-> acts[i].durationMs])
             sweepResult    == computeCoverageAndConcurrency(acts)
         IN [averageConcurrency    |-> Ratio(totalRuntimeMs, wallClockDurationMs),
             maxConcurrency        |-> sweepResult.maxConcurrency,
             criticalPathRatio     |-> RatioCappedAtOne(criticalPathDurationMs, wallClockDurationMs),
             timelineCoverageRatio |-> RatioCappedAtOne(sweepResult.coveredMs, wallClockDurationMs),
             idleWallClockMs       |-> Max(0, wallClockDurationMs - sweepResult.coveredMs),
             coveredMs             |-> sweepResult.coveredMs,
             enoughData            |-> TRUE]

analyzeTimeline(recs) ==
    LET g == normalizeTimeline(recs)
        stepActivityIds == IF Len(g.stepIds) > 0 THEN g.stepIds ELSE g.leafIds
        stepActivities == buildTimedActivities(g, stepActivityIds)
        fallbackActivities ==
            IF Len(stepActivities) > 0 THEN stepActivities
            ELSE buildTimedActivities(g, g.jobIds)
        path == computeCriticalPath(fallbackActivities)
        metrics == computePipelineMetrics(g)
    IN [graph           |-> g,
        activities      |-> fallbackActivities,
        metrics         |-> metrics,
        criticalPath    |-> path,
        parallelization |-> computeParallelization(fallbackActivities,
                                metrics.wallClockDurationMs, path.durationMs)]

\* ------------------------------------------------------ classification engine
\* A text is a sequence of characters; "" (null) is the empty sequence.
toLowerChar(c) == IF c = "A" THEN "a" ELSE IF c = "B" THEN "b" ELSE c

\* String.prototype.toLowerCase
toLowerCase(text) == [i \in 1..Len(text) |-> toLowerChar(text[i])]

\* String.prototype.startsWith
startsWith(text, prefix) ==
    Len(prefix) <= Len(text) /\ SubSeq(text, 1, Len(prefix)) = prefix

\* String.prototype.includes
includes(text, part) ==
    \E i \in 0..(Len(text) - Len(part)) : SubSeq(text, i + 1, i + Len(part)) = part

\* new RegExp(pattern, "i") throws a SyntaxError for a pattern with an
\* unterminated group; the patterns are letters only, or hold a "("
isMalformedPattern(pattern) == "(" \in Range(pattern)

\* new RegExp(pattern, "i").test(text) for a pattern of letters only: a
\* case-insensitive search for the letters
regexTest(pattern, text) == includes(toLowerCase(text), toLowerCase(pattern))

getFieldValue(n, field) ==
    CASE field = "name"       -> n.name
      [] field = "type"       -> n.type
      [] field = "identifier" -> n.identifier
      [] field = "refName"    -> n.refName
      [] field = "taskName"   -> n.taskName
      [] OTHER                -> <<>>

isRuleMatch(rule, n) ==
    LET fieldValue == getFieldValue(n, rule.field) IN
    IF Len(fieldValue) = 0 \/ Len(rule.value) = 0 THEN FALSE
    ELSE LET candidate == toLowerCase(fieldValue)
             target    == toLowerCase(rule.value)
         IN CASE rule.operator = "contains"   -> includes(candidate, target)
              [] rule.operator = "startsWith" -> startsWith(candidate, target)
              [] rule.operator = "equals"     -> candidate = target
              [] rule.operator = "regex"      ->
                    IF isMalformedPattern(rule.value) THEN FALSE
                    ELSE regexTest(rule.value, fieldValue)
              [] OTHER                        -> FALSE

NoRuleId == ""

Entry(category, matchedRuleId, source) ==
    [category |-> category, matchedRuleId |-> matchedRuleId, source |-> source]

\* classifyRules that does not skip disabled rules
RECURSIVE classifyRulesIgnoringEnabled(_, _, _)
classifyRulesIgnoringEnabled(n, ruleList, i) ==
    IF i > Len(ruleList) THEN Entry("unclassified", NoRuleId, "default")
    ELSE IF isRuleMatch(ruleList[i], n)
    THEN Entry(ruleList[i].category, ruleList[i].id, "rule")
    ELSE classifyRulesIgnoringEnabled(n, ruleList, i + 1)

\* classifyNode, the loop over the rules from position i and the default
RECURSIVE classifyRules(_, _, _)
classifyRules(n, ruleList, i) ==
    IF i > Len(ruleList) THEN Entry("unclassified", NoRuleId, "default")
    ELSE IF ~ruleList[i].enabled THEN classifyRules(n, ruleList, i + 1)
    ELSE IF isRuleMatch(ruleList[i], n)
    THEN Entry(ruleList[i].category, ruleList[i].id, "rule")
    ELSE classifyRules(n, ruleList, i + 1)

\* classifyNode with the override consulted only when no rule matches
classifyNodeRulesFirst(n, ruleList, overrideMap) ==
    LET byRule == classifyRules(n, ruleList, 1) IN
    IF byRule.source = "rule" THEN byRule
    ELSE IF n.id \in DOMAIN overrideMap
    THEN Entry(overrideMap[n.id], NoRuleId, "override")
    ELSE byRule

classifyNode(n, ruleList, overrideMap) ==
    IF n.id \in DOMAIN overrideMap
    THEN Entry(overrideMap[n.id], NoRuleId, "override")
    ELSE classifyRules(n, ruleList, 1)

\* ------------------------------------------------------------- the inputs
IdChoices == {"", " ", "a", "b", "c"}
ParentChoices == {"", "a", "b", "c"}

\* Records that differ in id and parent: the structure of the timeline
StructureRecords ==
    [id : IdChoices, parentId : ParentChoices, type : {"Task"}, name : {""},
     order : {Null}, startTime : {Null}, finishTime : {Null}]

SeqsUpTo(S, n) == UNION {[1..k -> S] : k \in 0..n}

\* Timed activities: start < finish, durationMs = finish - start, distinct ids
Intervals(last) ==
    {iv \in (0..last) \X (0..last) : iv[1] < iv[2]}

ActivityIds == <<"t1", "t2", "t3", "t4", "t5">>

ActivityLists(maxLen, last) ==
    {[i \in 1..Len(ivs) |-> Activity(ActivityIds[i], ivs[i][1], ivs[i][2])] :
        ivs \in SeqsUpTo(Intervals(last), maxLen)}

\* Timelines of accepted records: the i-th record has the i-th id, a parent
\* among the earlier records or none, a type and times on a small clock: no
\* times, a start only, a start before a finish, both at 0 (no duration), or
\* an interval that begins after a gap, past every other time
AnalysisIds == <<"a", "b", "c">>
AnalysisTypes == {"Stage", "Job", "Task"}

ClockTimes ==
    {<<Null, Null>>}
        \cup {<<Some(s), Null>> : s \in 0..MaxClock}
        \cup {<<Some(iv[1]), Some(iv[2])>> : iv \in Intervals(MaxClock)}
        \cup {<<Some(0), Some(0)>>}
        \cup {<<Some(MaxClock + 1), Some(MaxClock + 2)>>}

\* The parents of n records: none, or an earlier record
ParentAssignments(n) ==
    {ps \in [1..n -> {""} \cup Range(AnalysisIds)] :
        \A i \in 1..n : ps[i] = "" \/ \E j \in 1..(i - 1) : ps[i] = AnalysisIds[j]}

AnalysisTimeline(n, parents, types, times) ==
    [i \in 1..n |->
        [id |-> AnalysisIds[i], parentId |-> parents[i], type |-> types[i], name |-> "",
         order |-> Null, startTime |-> times[i][1], finishTime |-> times[i][2]]]

\* Timelines of siblings: the first record is a root or its own parent, the
\* others are its children; each has an order or none, and a start and a
\* finish time or none
SiblingOrders == {Null} \cup {Some(k) : k \in 1..MaxOrder}

SiblingTimes ==
    {<<Null, Null>>}
        \cup {<<Some(s), Null>> : s \in 0..MaxTick}
        \cup {<<Null, Some(f)>> : f \in 0..MaxTick}
        \cup {<<Some(iv[1]), Some(iv[2])>> :
                 iv \in {p \in (0..MaxTick) \X (0..MaxTick) : p[1] <= p[2]}}

SiblingTimeline(n, firstParent, orders, times) ==
    [i \in 1..n |->
        [id |-> AnalysisIds[i],
         parentId |-> IF i = 1 THEN firstParent ELSE AnalysisIds[1],
         type |-> "Task", name |-> "",
         order |-> orders[i], startTime |-> times[i][1], finishTime |-> times[i][2]]]

\* Nodes, rules and override maps for the classification engine
ClassifiedNodes ==
    {[id |-> "a", name |-> <<"A">>, type |-> <<"t">>, identifier |-> <<>>,
      refName |-> <<>>, taskName |-> <<>>],
     [id |-> "a", name |-> <<"b", "a">>, type |-> <<"t">>, identifier |-> <<>>,
      refName |-> <<>>, taskName |-> <<"a", "B">>]}

RuleIds == <<"r1", "r2", "r3", "r4">>
RuleCategories == <<"setup", "useful", "infrastructure", "unclassified">>
RuleOperators == {"contains", "startsWith", "equals", "regex"}
RuleValues == {<<"a">>, <<"A", "b">>, <<"(">>}
MatchedFields == {"name", "taskName"}

\* A list of n rules: the i-th rule has the i-th id and category
RuleList(n, enabled, field, operator, value) ==
    [i \in 1..n |->
        [id |-> RuleIds[i], label |-> "", enabled |-> enabled[i], field |-> field[i],
         operator |-> operator[i], value |-> value[i], category |-> RuleCategories[i]]]

OverrideMaps == {<<>>, "a" :> "teardown", "b" :> "useful"}

NoResult == [status |-> "none"]

\* The parts of the state a specification does not use
IdleTimeline == records = <<>> /\ graph = EmptyGraph /\ dfs = DfsIdle
IdleEngines == activities = <<>> /\ criticalPath = NoResult /\ coverage = NoResult
IdleClassify == stepNode = NoResult /\ rules = <<>> /\ overrides = <<>> /\ entry = NoResult
\* localStorage.getItem returns null: no item under the key
NoItem == [json |-> "absent"]

IdleApp == app = NoResult /\ reads = <<>> /\ storage = NoItem
IdleCategories == priorityRules = <<>> /\ matched = NoResult

\* ------------------------------------------------------------- the actions
InitNorm ==
    /\ IdleCategories
    /\ IdleApp
    /\ pc = "input"
    /\ records \in SeqsUpTo(StructureRecords, MaxRecords)
    /\ graph = EmptyGraph
    /\ dfs = DfsIdle
    /\ IdleEngines
    /\ analysis = NoResult
    /\ IdleClassify

\* normalizeTimeline, from its entry to the call of assignDepths
NormalizeBegin ==
    /\ pc = "input"
    /\ pc' = "assignDepths"
    /\ graph' = linkTimeline(records)
    /\ dfs' = DfsStart
    /\ UNCHANGED <<records, engineVars, analysis, classifyVars, appVars, categoriesVars>>

\* assignDepths, one step of its traversal
AssignDepthsStep ==
    /\ pc = "assignDepths"
    /\ dfs.phase # "done"
    /\ LET next == assignDepthsStep([graph |-> graph, dfs |-> dfs])
       IN /\ graph' = next.graph
          /\ dfs' = next.dfs
    /\ UNCHANGED <<pc, records, engineVars, analysis, classifyVars, appVars, categoriesVars>>

\* assignDepths returns; normalizeTimeline builds its lists and returns
NormalizeFinish ==
    /\ pc = "assignDepths"
    /\ dfs.phase = "done"
    /\ pc' = "normalized"
    /\ graph' = finishGraph(graph)
    /\ UNCHANGED <<records, dfs, engineVars, analysis, classifyVars, appVars, categoriesVars>>

NextNorm == NormalizeBegin \/ AssignDepthsStep \/ NormalizeFinish

SpecNorm == InitNorm /\ [][NextNorm]_vars

\* The engines, each called on a list of timed activities
InitEngines ==
    /\ IdleCategories
    /\ IdleApp
    /\ pc = "input"
    /\ activities \in ActivityLists(MaxActivities, MaxTime)
    /\ criticalPath = NoResult
    /\ coverage = NoResult
    /\ IdleTimeline
    /\ analysis = NoResult
    /\ IdleClassify

CriticalPathCall ==
    /\ pc = "input"
    /\ pc' = "criticalPath"
    /\ criticalPath' = computeCriticalPath(activities)
    /\ UNCHANGED <<timelineVars, activities, coverage, analysis, classifyVars, appVars, categoriesVars>>

CoverageCall ==
    /\ pc = "input"
    /\ pc' = "coverage"
    /\ coverage' = computeCoverageAndConcurrency(activities)
    /\ UNCHANGED <<timelineVars, activities, criticalPath, analysis, classifyVars, appVars, categoriesVars>>

NextEngines == CriticalPathCall \/ CoverageCall

SpecEngines == InitEngines /\ [][NextEngines]_vars

\* analyzeTimeline on an uploaded timeline
InitAnalyze ==
    /\ IdleCategories
    /\ IdleApp
    /\ pc = "input"
    /\ \E n \in 0..Len(AnalysisIds) :
          \E parents \in ParentAssignments(n) :
             \E types \in [1..n -> AnalysisTypes] :
                \E times \in [1..n -> ClockTimes] :
                   records = AnalysisTimeline(n, parents, types, times)
    /\ graph = EmptyGraph
    /\ dfs = DfsIdle
    /\ IdleEngines
    /\ analysis = NoResult
    /\ IdleClassify

AnalyzeCall ==
    /\ pc = "input"
    /\ pc' = "analyzed"
    /\ analysis' = analyzeTimeline(records)
    /\ UNCHANGED <<timelineVars, engineVars, classifyVars, appVars, categoriesVars>>

NextAnalyze == AnalyzeCall

SpecAnalyze == InitAnalyze /\ [][NextAnalyze]_vars

\* normalizeTimeline on a timeline of siblings, from entry to return
InitSiblings ==
    /\ IdleCategories
    /\ IdleApp
    /\ pc = "input"
    /\ \E n \in 0..Len(AnalysisIds) :
          \E firstParent \in {NoString, AnalysisIds[1]} :
             \E orders \in [1..n -> SiblingOrders] :
                \E times \in [1..n -> SiblingTimes] :
                   records = SiblingTimeline(n, firstParent, orders, times)
    /\ graph = EmptyGraph
    /\ dfs = DfsIdle
    /\ IdleEngines
    /\ analysis = NoResult
    /\ IdleClassify

NormalizeCall ==
    /\ pc = "input"
    /\ pc' = "normalized"
    /\ graph' = normalizeTimeline(records)
    /\ UNCHANGED <<records, dfs, engineVars, analysis, classifyVars, appVars, categoriesVars>>

NextSiblings == NormalizeCall

SpecSiblings == InitSiblings /\ [][NextSiblings]_vars

\* classifyNode on a node, a rule list and an override map
InitClassify ==
    /\ IdleCategories
    /\ IdleApp
    /\ pc = "input"
    /\ stepNode \in ClassifiedNodes
    /\ \E n \in 0..MaxRules :
          \E enabled \in [1..n -> BOOLEAN] :
             \E field \in [1..n -> MatchedFields] :
                \E operator \in [1..n -> RuleOperators] :
                   \E value \in [1..n -> RuleValues] :
                      rules = RuleList(n, enabled, field, operator, value)
    /\ overrides \in OverrideMaps
    /\ entry = NoResult
    /\ IdleTimeline
    /\ IdleEngines
    /\ analysis = NoResult

ClassifyCall ==
    /\ pc = "input"
    /\ pc' = "classified"
    /\ entry' = classifyNode(stepNode, rules, overrides)
    /\ UNCHANGED <<timelineVars, engineVars, analysis, stepNode, rules, overrides, appVars, categoriesVars>>

NextClassify == ClassifyCall

SpecClassify == InitClassify /\ [][NextClassify]_vars

\* ------------------------------------------------------ the App component
\* What a call throws or returns
Thrown(message) == [threw |-> TRUE, message |-> message]
Returned(value) == [threw |-> FALSE, value |-> value]

\* The text of a file is modelled by what JSON.parse makes of it: a
\* SyntaxError, a value that is not an object, or an object with or without
\* a `records` array
InvalidJson == [json |-> "invalid", hasRecordsArray |-> FALSE, records |-> <<>>]
JsonNull == [json |-> "null", hasRecordsArray |-> FALSE, records |-> <<>>]
JsonObject == [json |-> "object", hasRecordsArray |-> FALSE, records |-> <<>>]
JsonTimeline(recs) == [json |-> "object", hasRecordsArray |-> TRUE, records |-> recs]

SyntaxErrorMessage == "Unexpected token"

\* JSON.parse
JsonParse(text) ==
    IF text.json = "invalid" THEN Thrown(SyntaxErrorMessage) ELSE Returned(text)

ensureRawTimeline(rawInput) ==
    IF rawInput.json # "object"
    THEN Thrown("Timeline payload must be a JSON object.")
    ELSE IF ~rawInput.hasRecordsArray
    THEN Thrown("Timeline payload must include a records array.")
    ELSE Returned(rawInput.records)

\* The try block of onTimelineFileSelected up to nextAnalysis:
\* JSON.parse(fileText), then analyzeTimeline with its ensureRawTimeline
parseAndAnalyze(fileText) ==
    LET parsed == JsonParse(fileText) IN
    IF parsed.threw THEN parsed
    ELSE LET timeline == ensureRawTimeline(parsed.value) IN
         IF timeline.threw THEN timeline
         ELSE Returned(analyzeTimeline(timeline.value))

\* stageIds[0] ?? jobIds[0] ?? rootIds[0] ?? nodes[0]?.id ?? null
firstSelection(g) ==
    IF Len(g.stageIds) > 0 THEN g.stageIds[1]
    ELSE IF Len(g.jobIds) > 0 THEN g.jobIds[1]
    ELSE IF Len(g.rootIds) > 0 THEN g.rootIds[1]
    ELSE IF Len(g.nodes) > 0 THEN g.nodes[1]
    ELSE NoString

\* onTimelineFileSelected that starts a loaded timeline without overrides
onTimelineFileReadClearingOverrides(state, file) ==
    LET loaded == parseAndAnalyze(file.content) IN
    IF loaded.threw
    THEN [state EXCEPT !.analysis = NoResult,
                       !.selectedNodeId = NoString,
                       !.error = loaded.message]
    ELSE [state EXCEPT !.analysis = loaded.value,
                       !.fileName = file.name,
                       !.selectedNodeId = firstSelection(loaded.value.graph),
                       !.searchText = "",
                       !.overrides = <<>>]

\* onTimelineFileSelected after `await file.text()`: the try and the catch
onTimelineFileRead(state, file) ==
    LET loaded == parseAndAnalyze(file.content) IN
    IF loaded.threw
    THEN [state EXCEPT !.analysis = NoResult,
                       !.selectedNodeId = NoString,
                       !.error = loaded.message]
    ELSE [state EXCEPT !.analysis = loaded.value,
                       !.fileName = file.name,
                       !.selectedNodeId = firstSelection(loaded.value.graph),
                       !.searchText = ""]

createDefaultRules ==
    <<[id |-> "setup-init-finalize", label |-> "Initialize/finalize tasks",
       enabled |-> TRUE, field |-> "name", operator |-> "regex",
       value |-> "(initialize job|pre-job|finalize job|post-job)",
       category |-> "setup"],
      [id |-> "setup-download-secrets", label |-> "Download secrets/setup resources",
       enabled |-> TRUE, field |-> "name", operator |-> "regex",
       value |-> "(download secrets|checkout|set .* variable|prepare|setup)",
       category |-> "setup"],
      [id |-> "infra-security-policy", label |-> "Security and policy checks",
       enabled |-> TRUE, field |-> "name", operator |-> "regex",
       value |-> "(codeql|governance|security|policy|compliance|validation|drift management)",
       category |-> "infrastructure"],
      [id |-> "teardown-stop-cleanup", label |-> "Stop/cleanup tasks",
       enabled |-> TRUE, field |-> "name", operator |-> "regex",
       value |-> "(stop .*|cleanup|tear ?down|finalize)",
       category |-> "teardown"],
      [id |-> "useful-build-test", label |-> "Build/test/publish work",
       enabled |-> TRUE, field |-> "name", operator |-> "regex",
       value |-> "(build|compile|restore|test|pack|publish|run)",
       category |-> "useful"]>>

\* The useState cells of App on its first render, with no stored rule set
AppStart ==
    [analysis       |-> NoResult,
     fileName       |-> "",
     error          |-> NoString,
     selectedNodeId |-> NoString,
     searchText     |-> "",
     rules          |-> createDefaultRules,
     overrides      |-> <<>>]

\* The files a user uploads as a timeline
TimelineFiles ==
    {[name |-> "bad.json", content |-> InvalidJson],
     [name |-> "null.json", content |-> JsonNull],
     [name |-> "object.json", content |-> JsonObject],
     [name |-> "stage.json", content |->
        JsonTimeline(AnalysisTimeline(1, <<"">>, <<"Stage">>, <<<<Some(0), Some(1)>>>>))],
     [name |-> "job.json", content |->
        JsonTimeline(AnalysisTimeline(2, <<"", "a">>, <<"Job", "Task">>,
                                      <<<<Some(0), Some(2)>>, <<Some(0), Some(1)>>>>))]}

SearchTexts == {"", "a"}

RemoveAt(s, i) == SubSeq(s, 1, i - 1) \o SubSeq(s, i + 1, Len(s))

\* ------------------------------------------------------- rule-file import
\* The values of the properties of a parsed rule file: undefined (the
\* property is missing), a string, a boolean, or a number whole.tenths
JsonUndefined ==
    [type |-> "undefined", text |-> "undefined", truth |-> FALSE, whole |-> 0, tenths |-> 0]
JsonString(s) ==
    [type |-> "string", text |-> s, truth |-> FALSE, whole |-> 0, tenths |-> 0]
JsonBoolean(b) ==
    [type |-> "boolean", text |-> IF b THEN "true" ELSE "false", truth |-> b,
     whole |-> 0, tenths |-> 0]

DigitText(n) == <<"0", "1", "2", "3", "4", "5", "6", "7", "8", "9">>[n + 1]

\* String(value) of a number
NumberText(whole, tenths) ==
    IF tenths = 0 THEN DigitText(whole) ELSE DigitText(whole) \o "." \o DigitText(tenths)

JsonNumber(whole, tenths) ==
    [type |-> "number", text |-> NumberText(whole, tenths), truth |-> FALSE,
     whole |-> whole, tenths |-> tenths]

\* Number.isInteger
isInteger(v) == v.type = "number" /\ v.tenths = 0

RULE_SET_VERSION == 1
WORK_CATEGORIES == {"useful", "setup", "teardown", "infrastructure", "unclassified"}
RULE_FIELDS == {"name", "type", "identifier", "refName", "taskName"}
RULE_OPERATORS == {"contains", "startsWith", "equals", "regex"}

isWorkCategory(v) == v.type = "string" /\ v.text \in WORK_CATEGORIES
isRuleField(v) == v.type = "string" /\ v.text \in RULE_FIELDS
isRuleOperator(v) == v.type = "string" /\ v.text \in RULE_OPERATORS

\* parseRule for the entry at the 0-based index; `generated` is what
\* generateRuleId returns if it is called
parseRule(ruleValue, index, generated) ==
    IF ~ruleValue.isObject
    THEN Thrown("Rule at index " \o DigitText(index) \o " must be an object.")
    ELSE Returned(
        [id       |-> IF ruleValue.id.type = "string" /\ ruleValue.id.text # ""
                      THEN ruleValue.id.text ELSE generated,
         label    |-> IF ruleValue.label.type = "string" /\ ruleValue.label.text # ""
                      THEN ruleValue.label.text
                      ELSE "Imported rule " \o DigitText(index + 1),
         enabled  |-> IF ruleValue.enabled.type = "boolean"
                      THEN ruleValue.enabled.truth ELSE TRUE,
         field    |-> IF isRuleField(ruleValue.field) THEN ruleValue.field.text ELSE "name",
         operator |-> IF isRuleOperator(ruleValue.operator)
                      THEN ruleValue.operator.text ELSE "contains",
         value    |-> IF ruleValue.value.type = "string" THEN ruleValue.value.text ELSE "",
         category |-> IF isWorkCategory(ruleValue.category)
                      THEN ruleValue.category.text ELSE "unclassified"])

\* `overrides[nodeId] = category` on an object literal: the key "__proto__"
\* is the accessor of Object.prototype, whose setter ignores a string and
\* adds no property
isAssignableKey(nodeId) == nodeId # "__proto__"

\* parseOverrides: the entries with a valid category, {} for a non-object
parseOverrides(rawOverrides) ==
    IF ~rawOverrides.isObject THEN <<>>
    ELSE LET valid == {nodeId \in DOMAIN rawOverrides.entries :
                          /\ isWorkCategory(rawOverrides.entries[nodeId])
                          /\ isAssignableKey(nodeId)}
         IN [nodeId \in valid |-> rawOverrides.entries[nodeId].text]

\* candidate.rules.map(parseRule): the first entry that throws ends the map
mapParseRule(ruleValues, generated) ==
    LET each == [i \in 1..Len(ruleValues) |-> parseRule(ruleValues[i], i - 1, generated[i])]
        failed == {i \in 1..Len(ruleValues) : each[i].threw}
    IN IF failed # {}
       THEN each[CHOOSE i \in failed : \A j \in failed : i <= j]
       ELSE Returned([i \in 1..Len(ruleValues) |-> each[i].value])

\* parseRuleSet that takes a missing or non-integer version for the
\* supported one
parseRuleSetDefaultVersion(json, generated) ==
    LET parsed == JsonParse(json) IN
    IF parsed.threw THEN parsed
    ELSE IF json.json # "object" THEN Thrown("Rule file must be a JSON object.")
    ELSE LET version == IF isInteger(json.version) THEN json.version.whole
                        ELSE RULE_SET_VERSION
         IN IF version # RULE_SET_VERSION
            THEN Thrown("Unsupported rule file version '" \o json.version.text \o "'.")
            ELSE IF ~json.hasRulesArray THEN Thrown("Rule file must include a rules array.")
            ELSE LET parsedRules == mapParseRule(json.rules, generated) IN
                 IF parsedRules.threw THEN parsedRules
                 ELSE Returned([version |-> version, rules |-> parsedRules.value,
                                overrides |-> parseOverrides(json.overrides)])

parseRuleSet(json, generated) ==
    LET parsed == JsonParse(json) IN
    IF parsed.threw THEN parsed
    ELSE IF json.json # "object" THEN Thrown("Rule file must be a JSON object.")
    ELSE LET version == IF isInteger(json.version) THEN json.version.whole ELSE 0
         IN IF version # RULE_SET_VERSION
            THEN Thrown("Unsupported rule file version '" \o json.version.text \o "'.")
            ELSE IF ~json.hasRulesArray THEN Thrown("Rule file must include a rules array.")
            ELSE LET parsedRules == mapParseRule(json.rules, generated) IN
                 IF parsedRules.threw THEN parsedRules
                 ELSE Returned([version |-> version, rules |-> parsedRules.value,
                                overrides |-> parseOverrides(json.overrides)])

\* importRules after `await file.text()`: the try and the catch
onRulesFileRead(state, file, generated) ==
    LET imported == parseRuleSet(file.content, generated) IN
    IF imported.threw
    THEN [state EXCEPT !.error = imported.message]
    ELSE [state EXCEPT !.rules = imported.value.rules,
                       !.overrides = imported.value.overrides,
                       !.error = NoString]

\* Entries of a `rules` array: a complete rule, an object with no property,
\* an object whose properties all have a wrong type or value, and null
CompleteRule ==
    [isObject |-> TRUE, id |-> JsonString("r1"), label |-> JsonString("Mine"),
     enabled |-> JsonBoolean(FALSE), field |-> JsonString("type"),
     operator |-> JsonString("equals"), value |-> JsonString("Task"),
     category |-> JsonString("setup")]
EmptyRule ==
    [isObject |-> TRUE, id |-> JsonUndefined, label |-> JsonUndefined,
     enabled |-> JsonUndefined, field |-> JsonUndefined, operator |-> JsonUndefined,
     value |-> JsonUndefined, category |-> JsonUndefined]
WrongRule ==
    [isObject |-> TRUE, id |-> JsonNumber(2, 0), label |-> JsonString(""),
     enabled |-> JsonString("yes"), field |-> JsonString("bogus"),
     operator |-> JsonBoolean(TRUE), value |-> JsonNumber(1, 5),
     category |-> JsonString("bogus")]
NullRule ==
    [isObject |-> FALSE, id |-> JsonUndefined, label |-> JsonUndefined,
     enabled |-> JsonUndefined, field |-> JsonUndefined, operator |-> JsonUndefined,
     value |-> JsonUndefined, category |-> JsonUndefined]

RuleArrays == {<<CompleteRule>>, <<EmptyRule, WrongRule>>, <<CompleteRule, NullRule>>}

RawOverrides ==
    {[isObject |-> FALSE, entries |-> <<>>],
     [isObject |-> TRUE,
      entries |-> ("a" :> JsonString("teardown")) @@ ("b" :> JsonString("bogus"))]}

\* The values of `version`: missing, an integer, a non-integer, a string
VersionValues ==
    {JsonUndefined, JsonString("1"), JsonNumber(1, 5)}
        \cup {JsonNumber(whole, 0) : whole \in 0..MaxVersion}

RuleFile(version, hasRulesArray, ruleValues, rawOverrides) ==
    [json |-> "object", version |-> version, hasRulesArray |-> hasRulesArray,
     rules |-> ruleValues, overrides |-> rawOverrides]

NoOverrides == [isObject |-> FALSE, entries |-> <<>>]

\* The files a user imports as a rule set: text that is not JSON, null, and
\* objects; the files of an unsupported version hold one complete rule
RuleFiles ==
    {[name |-> "rules.json", content |-> c] : c \in
        {[json |-> "invalid", version |-> JsonUndefined, hasRulesArray |-> FALSE,
          rules |-> <<>>, overrides |-> NoOverrides],
         [json |-> "null", version |-> JsonUndefined, hasRulesArray |-> FALSE,
          rules |-> <<>>, overrides |-> NoOverrides]}
        \cup {RuleFile(JsonNumber(RULE_SET_VERSION, 0), FALSE, <<>>, NoOverrides)}
        \cup {RuleFile(JsonNumber(RULE_SET_VERSION, 0), TRUE, rs, ov) :
                 rs \in RuleArrays, ov \in RawOverrides}
        \cup {RuleFile(v, TRUE, <<CompleteRule>>, ov) :
                 v \in VersionValues \ {JsonNumber(RULE_SET_VERSION, 0)},
                 ov \in RawOverrides}}

\* What generateRuleId may return, one id for each entry of a file
GeneratedIds == {"uuid-1", "uuid-2"}
GeneratedFor(file) == [1..Len(file.content.rules) -> GeneratedIds]

\* ------------------------------------------------- the App: stored rule set
serializeRule(rule) ==
    [isObject |-> TRUE, id |-> JsonString(rule.id), label |-> JsonString(rule.label),
     enabled |-> JsonBoolean(rule.enabled), field |-> JsonString(rule.field),
     operator |-> JsonString(rule.operator), value |-> JsonString(rule.value),
     category |-> JsonString(rule.category)]

\* serializeRuleSet: JSON.stringify of {version, rules, overrides}, as the
\* value JSON.parse makes of the text
serializeRuleSet(ruleSet) ==
    RuleFile(JsonNumber(ruleSet.version, 0), TRUE,
             [i \in 1..Len(ruleSet.rules) |-> serializeRule(ruleSet.rules[i])],
             [isObject |-> TRUE,
              entries |-> [nodeId \in DOMAIN ruleSet.overrides |->
                              JsonString(ruleSet.overrides[nodeId])]])

\* The effect on [overrides, rules]: localStorage.setItem with working storage
persistRules(state) ==
    serializeRuleSet([version |-> RULE_SET_VERSION, rules |-> state.rules,
                      overrides |-> state.overrides])

\* readStoredRuleSet that keeps the overrides of an object parseRuleSet
\* rejects
readStoredRuleSetKeepingOverrides(item, generated) ==
    IF item = NoItem THEN NoResult
    ELSE LET stored == parseRuleSet(item, generated) IN
         IF ~stored.threw THEN stored.value
         ELSE IF item.json # "object" THEN NoResult
         ELSE [version |-> RULE_SET_VERSION, rules |-> <<>>,
               overrides |-> parseOverrides(item.overrides)]

\* readStoredRuleSet: null (NoResult) for no item and for an item that
\* parseRuleSet rejects
readStoredRuleSet(item, generated) ==
    IF item = NoItem THEN NoResult
    ELSE LET stored == parseRuleSet(item, generated) IN
         IF stored.threw THEN NoResult ELSE stored.value

\* The useState cells of App on its first render
AppStartFrom(item, generated) ==
    LET stored == readStoredRuleSet(item, generated) IN
    [AppStart EXCEPT
        !.rules = IF stored # NoResult /\ Len(stored.rules) > 0
                  THEN stored.rules ELSE createDefaultRules,
        !.overrides = IF stored # NoResult THEN stored.overrides ELSE <<>>]

\* The ids generateRuleId may return while the stored item is parsed
GeneratedForItem(item) ==
    [1..(IF item.json = "object" THEN Len(item.rules) ELSE 0) -> GeneratedIds]

StoredOverrides ==
    [isObject |-> TRUE, entries |-> "a" :> JsonString("teardown")]

\* What the storage holds when the page is opened: nothing, text that is
\* not JSON, a rule set of another version, an object without a rules
\* array, a rule set with one rule, and a rule set with no rule
StoredItems ==
    {NoItem,
     [json |-> "invalid", version |-> JsonUndefined, hasRulesArray |-> FALSE,
      rules |-> <<>>, overrides |-> NoOverrides],
     RuleFile(JsonNumber(2, 0), TRUE, <<CompleteRule>>, StoredOverrides),
     RuleFile(JsonNumber(RULE_SET_VERSION, 0), FALSE, <<>>, StoredOverrides),
     RuleFile(JsonNumber(RULE_SET_VERSION, 0), TRUE, <<CompleteRule>>, StoredOverrides),
     RuleFile(JsonNumber(RULE_SET_VERSION, 0), TRUE, <<>>, StoredOverrides)}

\* createRule({label, category}) with the id generateRuleId returns
createRule(id, label, category) ==
    [id |-> id, label |-> label, enabled |-> TRUE, field |-> "name",
     operator |-> "contains", value |-> "", category |-> category]

\* { ...rule, ...patch }
patchRule(rule, patch) ==
    [f \in DOMAIN rule |-> IF f \in DOMAIN patch THEN patch[f] ELSE rule[f]]

RulePatches == {[label |-> ""], [enabled |-> FALSE]}

\* The rules a click can reach: the first MaxTarget rules of the list
TargetIds(ruleList) == {ruleList[i].id : i \in 1..Min(Len(ruleList), MaxTarget)}

CategoryValues == {"", "setup", "bogus"}

\* ----------------------------------------------------- the App: actions
\* The page before its first render
InitStored ==
    /\ IdleCategories
    /\ pc = "unmounted"
    /\ app = NoResult
    /\ reads = <<>>
    /\ storage \in StoredItems
    /\ IdleTimeline
    /\ IdleEngines
    /\ IdleClassify
    /\ analysis = NoResult

\* The first render of App: the useState initializers read the storage
Mount ==
    /\ pc = "unmounted"
    /\ pc' = "mounted"
    /\ \E generated \in GeneratedForItem(storage) :
          app' = AppStartFrom(storage, generated)
    /\ UNCHANGED <<timelineVars, engineVars, analysis, classifyVars, reads, storage,
                   categoriesVars>>

\* The effect on [overrides, rules] after the first render
PersistEffect ==
    /\ pc = "mounted"
    /\ pc' = "app"
    /\ storage' = persistRules(app)
    /\ UNCHANGED <<timelineVars, engineVars, analysis, classifyVars, app, reads,
                   categoriesVars>>

\* The page is reloaded: the pending reads are gone, App renders anew
Reload ==
    /\ pc = "app"
    /\ pc' = "mounted"
    /\ \E generated \in GeneratedForItem(storage) :
          app' = AppStartFrom(storage, generated)
    /\ reads' = <<>>
    /\ UNCHANGED <<timelineVars, engineVars, analysis, classifyVars, storage,
                   categoriesVars>>

\* onTimelineFileSelected up to `await file.text()`
TimelineFileSelected ==
    /\ pc = "app"
    /\ Len(reads) < MaxReads
    /\ \E file \in TimelineFiles :
          reads' = Append(reads, [handler |-> "timeline", file |-> file])
    /\ app' = [app EXCEPT !.error = NoString]
    /\ UNCHANGED <<pc, timelineVars, engineVars, analysis, classifyVars, storage,
                   categoriesVars>>

\* The i-th pending read settles and its handler runs to the end
TimelineReadSettles(i) ==
    /\ reads[i].handler = "timeline"
    /\ app' = onTimelineFileRead(app, reads[i].file)
    /\ reads' = RemoveAt(reads, i)

TimelineFileRead ==
    /\ pc = "app"
    /\ \E i \in 1..Len(reads) : TimelineReadSettles(i)
    /\ UNCHANGED <<pc, timelineVars, engineVars, analysis, classifyVars, storage,
                   categoriesVars>>

\* A click on a node of the explorer
NodeSelected ==
    /\ pc = "app"
    /\ app.analysis # NoResult
    /\ \E id \in DOMAIN app.analysis.graph.nodesById :
          app' = [app EXCEPT !.selectedNodeId = id]
    /\ UNCHANGED <<pc, timelineVars, engineVars, analysis, classifyVars, reads, storage,
                   categoriesVars>>

SearchTextChanged ==
    /\ pc = "app"
    /\ \E text \in SearchTexts : app' = [app EXCEPT !.searchText = text]
    /\ UNCHANGED <<pc, timelineVars, engineVars, analysis, classifyVars, reads, storage,
                   categoriesVars>>

\* selectedNode: null without an analysis, a selection or a node of that id
HasSelectedNode(state) ==
    /\ state.analysis # NoResult
    /\ state.selectedNodeId # NoString
    /\ state.selectedNodeId \in DOMAIN state.analysis.graph.nodesById

\* setSelectedNodeOverride: "" clears the override of the selected node, a
\* known category sets it, anything else is ignored
selectedNodeOverride(state, categoryValue) ==
    LET id == state.selectedNodeId
        current == state.overrides
    IN IF ~HasSelectedNode(state) THEN current
       ELSE IF categoryValue = ""
       THEN [k \in (DOMAIN current) \ {id} |-> current[k]]
       ELSE IF categoryValue \notin WORK_CATEGORIES THEN current
       ELSE [k \in (DOMAIN current) \cup {id} |->
                IF k = id THEN categoryValue ELSE current[k]]

setSelectedNodeOverride ==
    /\ pc = "app"
    /\ \E categoryValue \in CategoryValues :
          app' = [app EXCEPT !.overrides = selectedNodeOverride(app, categoryValue)]
    /\ storage' = persistRules(app')
    /\ UNCHANGED <<pc, timelineVars, engineVars, analysis, classifyVars, reads,
                   categoriesVars>>

addRule ==
    /\ pc = "app"
    /\ Len(app.rules) < MaxRuleCount
    /\ \E id \in GeneratedIds \ {app.rules[i].id : i \in 1..Len(app.rules)} :
          app' = [app EXCEPT
                     !.rules = Append(app.rules, createRule(id, "New rule", "unclassified"))]
    /\ storage' = persistRules(app')
    /\ UNCHANGED <<pc, timelineVars, engineVars, analysis, classifyVars, reads,
                   categoriesVars>>

updateRule ==
    /\ pc = "app"
    /\ \E ruleId \in TargetIds(app.rules), patch \in RulePatches :
          app' = [app EXCEPT
                     !.rules = [i \in 1..Len(app.rules) |->
                                   IF app.rules[i].id = ruleId
                                   THEN patchRule(app.rules[i], patch)
                                   ELSE app.rules[i]]]
    /\ storage' = persistRules(app')
    /\ UNCHANGED <<pc, timelineVars, engineVars, analysis, classifyVars, reads,
                   categoriesVars>>

removeRule ==
    /\ pc = "app"
    /\ \E ruleId \in TargetIds(app.rules) :
          LET Kept(rule) == rule.id # ruleId IN
          app' = [app EXCEPT !.rules = SelectSeq(app.rules, Kept)]
    /\ storage' = persistRules(app')
    /\ UNCHANGED <<pc, timelineVars, engineVars, analysis, classifyVars, reads,
                   categoriesVars>>

resetRules ==
    /\ pc = "app"
    /\ app' = [app EXCEPT !.rules = createDefaultRules, !.overrides = <<>>]
    /\ storage' = persistRules(app')
    /\ UNCHANGED <<pc, timelineVars, engineVars, analysis, classifyVars, reads,
                   categoriesVars>>

\* importRules up to `await file.text()`
RulesFileSelected ==
    /\ pc = "app"
    /\ Len(reads) < MaxImports
    /\ \E file \in RuleFiles :
          reads' = Append(reads, [handler |-> "rules", file |-> file])
    /\ UNCHANGED <<pc, timelineVars, engineVars, analysis, classifyVars, app, storage,
                   categoriesVars>>

\* The i-th pending read settles and importRules runs to the end
RulesReadSettles(i) ==
    /\ reads[i].handler = "rules"
    /\ \E generated \in GeneratedFor(reads[i].file) :
          app' = onRulesFileRead(app, reads[i].file, generated)
    /\ reads' = RemoveAt(reads, i)

RulesFileRead ==
    /\ pc = "app"
    /\ \E i \in 1..Len(reads) : RulesReadSettles(i)
    /\ storage' = persistRules(app')
    /\ UNCHANGED <<pc, timelineVars, engineVars, analysis, classifyVars, categoriesVars>>

\* The timeline side of App: uploads, the selection and its override
NextUpload ==
    \/ Mount
    \/ PersistEffect
    \/ TimelineFileSelected
    \/ TimelineFileRead
    \/ NodeSelected
    \/ SearchTextChanged
    \/ setSelectedNodeOverride
    \/ resetRules

SpecUpload == InitStored /\ [][NextUpload]_vars

\* Rule import in an App opened without a stored rule set
InitImport ==
    /\ IdleCategories
    /\ pc = "app"
    /\ app = AppStart
    /\ reads = <<>>
    /\ storage = persistRules(AppStart)
    /\ IdleTimeline
    /\ IdleEngines
    /\ IdleClassify
    /\ analysis = NoResult

NextImport == RulesFileSelected \/ RulesFileRead \/ resetRules

SpecImport == InitImport /\ [][NextImport]_vars

\* The rule editor of App and the stored rule set across reloads
NextRules ==
    Mount \/ PersistEffect \/ Reload \/ addRule \/ updateRule \/ removeRule \/ resetRules

SpecRules == InitStored /\ [][NextRules]_vars

\* ------------------------------------------------- properties: normalizer
RecordIndexes(recs, id) == {i \in 1..Len(recs) : recs[i].id = id}

\* The first record of the input that carries the id
FirstRecord(recs, id) ==
    recs[CHOOSE i \in RecordIndexes(recs, id) : \A j \in RecordIndexes(recs, id) : i <= j]

\* Ids that are strings with at least one non-blank character
UsableIds(recs) == {recs[i].id : i \in {j \in 1..Len(recs) : trim(recs[j].id) # ""}}

\* Ids that are non-empty strings
NonEmptyIds(recs) == {recs[i].id : i \in {j \in 1..Len(recs) : recs[j].id # ""}}

CountWarnings(g, kind) ==
    Cardinality({i \in 1..Len(g.warnings) : g.warnings[i].kind = kind})

CountWarningsFor(g, kind, id) ==
    Cardinality({i \in 1..Len(g.warnings) :
                    g.warnings[i].kind = kind /\ g.warnings[i].id = id})

\* The k-th ancestor of a node along parentId, "" past a root
RECURSIVE Ancestor(_, _, _)
Ancestor(g, id, k) ==
    IF id = NoString \/ k = 0 THEN id
    ELSE Ancestor(g, g.nodesById[id].parentId, k - 1)

OnCycle(g, id) == \E k \in 1..Len(g.keys) : Ancestor(g, id, k) = id

HasCycle(g) == \E id \in DOMAIN g.nodesById : OnCycle(g, id)

\* The parent chain of the node ends at a node without parent
UnderRoot(g, id) == Ancestor(g, id, Len(g.keys)) = NoString

\* A bound on the steps assignDepths has left: every unvisited node is
\* entered once, every active call loops over its remaining children and
\* returns, and the two outer loops advance.
DfsMeasure ==
    LET unvisited ==
            [i \in 1..Len(graph.keys) |->
                IF graph.keys[i] \in dfs.visited THEN 0
                ELSE Len(graph.nodesById[graph.keys[i]].childIds) + 2]
        frames ==
            [i \in 1..Len(dfs.stack) |->
                Len(graph.nodesById[dfs.stack[i].nodeId].childIds) - dfs.stack[i].index + 2]
    IN SumSeq(unvisited) + SumSeq(frames)
       + (Len(graph.rootIds) - dfs.rootIdx + 1)
       + (Len(graph.keys) - dfs.keyIdx + 1)
       + (IF dfs.phase = "done" THEN 0 ELSE 1)

DepthsFinite ==
    \A id \in DOMAIN graph.nodesById : graph.nodesById[id].depth \in Nat

C7_Outcome ==
    /\ pc = "assignDepths" => ENABLED NextNorm
    /\ pc = "normalized" =>
          /\ DepthsFinite
          /\ HasCycle(graph) => CountWarnings(graph, "cycle") >= 1

C7_Progress ==
    (pc = "assignDepths" /\ dfs.phase # "done") =>
        (DfsMeasure' < DfsMeasure /\ DfsMeasure' >= 0)

\* C7: depth assignment terminates on every accepted node set, parent
\* cycles and self-parents included: every step of assignDepths lowers a
\* natural-number bound on the steps left and a step is always possible until
\* it returns; afterwards every node has a depth >= 0, and if the parent
\* relation has a cycle, at least one "Detected cycle" warning is recorded.
C7_DepthAssignmentTerminates == []C7_Outcome /\ [][C7_Progress]_vars

\* C7 witness: normalization has returned on an input with a parent cycle
C7_Witness ==
    /\ pc = "normalized"
    /\ HasCycle(graph)
    /\ CountWarnings(graph, "cycle") >= 1

\* C8: for every parent-child pair (p, c) where c is not on a parent cycle,
\* depth(c) > depth(p); under a declared root depth(c) = depth(p) + 1 and
\* roots have depth 0; whatever the order of the records.
C8_DepthIncreasesToChildren ==
    pc = "normalized" =>
        \A c \in DOMAIN graph.nodesById :
            LET p == graph.nodesById[c].parentId IN
            /\ (p = NoString) => graph.nodesById[c].depth = 0
            /\ (p # NoString /\ ~OnCycle(graph, c)) =>
                   graph.nodesById[c].depth > graph.nodesById[p].depth
            /\ (p # NoString /\ UnderRoot(graph, c)) =>
                   graph.nodesById[c].depth = graph.nodesById[p].depth + 1

\* What C9 states about the outcome, for a given set of valid ids
OneNodePerId(validIds) ==
    /\ DOMAIN graph.nodesById = validIds
    /\ Range(graph.keys) = validIds
    /\ Len(graph.keys) = Cardinality(validIds)
    /\ \A id \in DOMAIN graph.nodesById :
          LET first == FirstRecord(records, id)
              node  == graph.nodesById[id]
          IN /\ node.id = id
             /\ node.parentId \in {first.parentId, NoString}
             /\ (node.parentId = NoString) =>
                    (first.parentId = NoString \/ ~HasNode(graph, first.parentId))
    /\ CountWarnings(graph, "noValidId")
          = Cardinality({i \in 1..Len(records) : records[i].id \notin validIds})
    /\ CountWarnings(graph, "duplicateId")
          = Cardinality({i \in 1..Len(records) :
                            /\ records[i].id \in validIds
                            /\ \E j \in 1..(i - 1) : records[j].id = records[i].id})
    /\ Len(graph.keys)
          = Len(records) - CountWarnings(graph, "noValidId")
                         - CountWarnings(graph, "duplicateId")

DanglingParent(id) ==
    LET first == FirstRecord(records, id)
    IN first.parentId # NoString /\ ~HasNode(graph, first.parentId)

ChildPlaces(g, id) ==
    {pl \in (DOMAIN g.nodesById) \X (1..Len(g.keys)) :
        /\ pl[2] <= Len(g.nodesById[pl[1]].childIds)
        /\ g.nodesById[pl[1]].childIds[pl[2]] = id}

ChildEntries(g) ==
    SumSeq([i \in 1..Len(g.keys) |-> Len(g.nodesById[g.keys[i]].childIds)])

\* C11: in the graph normalizeTimeline returns, every childIds entry is the
\* id of a node whose parentId is the owner of the list; every node with a
\* parentId is listed exactly once, in one list; rootIds is exactly the nodes
\* without parentId; so roots + childIds entries = accepted nodes.
C11_ChildAndRootListsPartitionNodes ==
    pc = "normalized" =>
        /\ \A p \in DOMAIN graph.nodesById :
              \A i \in 1..Len(graph.nodesById[p].childIds) :
                 LET c == graph.nodesById[p].childIds[i]
                 IN HasNode(graph, c) /\ graph.nodesById[c].parentId = p
        /\ \A c \in DOMAIN graph.nodesById :
              graph.nodesById[c].parentId # NoString =>
                  Cardinality(ChildPlaces(graph, c)) = 1
        /\ Range(graph.rootIds)
              = {id \in DOMAIN graph.nodesById : graph.nodesById[id].parentId = NoString}
        /\ Len(graph.rootIds) = Cardinality(Range(graph.rootIds))
        /\ Len(graph.rootIds) + ChildEntries(graph) = Cardinality(DOMAIN graph.nodesById)

\* C11 witness: a root with a child, and a node that is its own parent
C11_Witness ==
    /\ pc = "normalized"
    /\ Len(graph.keys) = 3
    /\ Len(graph.rootIds) = 1
    /\ Len(graph.nodesById[graph.rootIds[1]].childIds) = 1
    /\ \E id \in DOMAIN graph.nodesById : graph.nodesById[id].parentId = id

\* ---------------------------------------------------- properties: ordering
\* left sorts before right
Before(left, right) == compareNodes(left, right) < 0

Reorderings(n) == {f \in [1..n -> 1..n] : \A i, j \in 1..n : i # j => f[i] # f[j]}

\* The child lists of the graph of the records taken in another order
ChildListsOf(recs, f) ==
    LET g == normalizeTimeline([i \in 1..Len(recs) |-> recs[f[i]]])
    IN [id \in DOMAIN g.nodesById |-> g.nodesById[id].childIds]

\* C12: compareNodes is a deterministic total order on nodes with any
\* combination of present and absent order, start and finish: a before b
\* excludes b before a, a before b and b before c give a before c, and so
\* the sorted child lists do not depend on the order of the records.
C12_CompareNodesIsTotalOrder ==
    pc = "normalized" =>
        LET N == {graph.nodesById[id] : id \in DOMAIN graph.nodesById} IN
        /\ \A a, b \in N : Before(a, b) => ~Before(b, a)
        /\ \A a, b \in N : a # b => (Before(a, b) \/ Before(b, a))
        /\ \A a, b, c \in N : (Before(a, b) /\ Before(b, c)) => Before(a, c)
        /\ \A f \in Reorderings(Len(records)) :
              ChildListsOf(records, f)
                  = [id \in DOMAIN graph.nodesById |-> graph.nodesById[id].childIds]

\* ------------------------------------------------------- properties: edges
\* The consecutive pairs <<left id, right id>> of the child lists
ConsecutiveSiblings(g) ==
    {<<g.nodesById[p].childIds[i], g.nodesById[p].childIds[i + 1]>> :
        <<p, i>> \in {pl \in (DOMAIN g.nodesById) \X (1..Len(g.keys)) :
                         pl[2] < Len(g.nodesById[pl[1]].childIds)}}

HasSiblingEdge(g, from, to) ==
    \E i \in 1..Len(g.dependencyEdges) :
        g.dependencyEdges[i] = [from |-> from, to |-> to, reason |-> "sibling-order"]

BothTimed(node) == ~IsNull(node.startTime) /\ ~IsNull(node.finishTime)

\* Both siblings have both times and the left one finishes after the right
\* one starts
OverlappingPair(g, pair) ==
    LET left == g.nodesById[pair[1]]
        right == g.nodesById[pair[2]]
    IN /\ BothTimed(left) /\ BothTimed(right)
       /\ Val(left.finishTime) > Val(right.startTime)

\* C13: between two consecutive siblings that both have start and finish
\* times and overlap in time there is no "sibling-order" edge, in either
\* direction, even when their order values are ascending.
C13_NoSiblingEdgeWhenOverlapping ==
    pc = "normalized" =>
        \A pair \in ConsecutiveSiblings(graph) :
            OverlappingPair(graph, pair) =>
                /\ ~HasSiblingEdge(graph, pair[1], pair[2])
                /\ ~HasSiblingEdge(graph, pair[2], pair[1])

\* C13 witness: two overlapping consecutive siblings with ascending orders
C13_Witness ==
    /\ pc = "normalized"
    /\ \E pair \in ConsecutiveSiblings(graph) :
          /\ OverlappingPair(graph, pair)
          /\ ~IsNull(graph.nodesById[pair[1]].order)
          /\ ~IsNull(graph.nodesById[pair[2]].order)
          /\ Val(graph.nodesById[pair[1]].order) < Val(graph.nodesById[pair[2]].order)
          /\ ~HasSiblingEdge(graph, pair[1], pair[2])

\* The three cases in which a pair of consecutive siblings is taken to run
\* in sequence; "timing" is the left one's finish and the right one's start
SequentialCase(left, right) ==
    LET timed   == ~IsNull(left.finishTime) /\ ~IsNull(right.startTime)
        ordered == ~IsNull(left.order) /\ ~IsNull(right.order)
    IN \/ timed /\ Val(left.finishTime) <= Val(right.startTime)
       \/ ~timed /\ ordered /\ Val(left.order) # Val(right.order)
                 /\ Val(left.order) < Val(right.order)
       \/ ~timed /\ ~ordered

HasChildEdge(g, from, to) ==
    \E i \in 1..Len(g.dependencyEdges) :
        g.dependencyEdges[i] = [from |-> from, to |-> to, reason |-> "parent-child"]

\* C14 as stated: for each consecutive pair (left, right) of a child list a
\* "sibling-order" edge left->right is emitted if and only if both have known
\* times and left.finish <= right.start, or there is no timing and both have
\* distinct orders with left.order < right.order, or there is neither timing
\* nor order.
C14_SiblingEdgeIffSequential ==
    pc = "normalized" =>
        \A pair \in ConsecutiveSiblings(graph) :
            HasSiblingEdge(graph, pair[1], pair[2])
                <=> SequentialCase(graph.nodesById[pair[1]], graph.nodesById[pair[2]])

\* C14 amended: the same, except that no "sibling-order" edge is emitted for
\* a pair that already has a "parent-child" edge left->right (the left node
\* is its own parent and the parent of the right one): there is one edge per
\* (from, to).
C14_SiblingEdgeIffSequentialAndNoChildEdge ==
    pc = "normalized" =>
        \A pair \in ConsecutiveSiblings(graph) :
            HasSiblingEdge(graph, pair[1], pair[2])
                <=> /\ SequentialCase(graph.nodesById[pair[1]], graph.nodesById[pair[2]])
                    /\ ~HasChildEdge(graph, pair[1], pair[2])

\* C14 witness: three siblings; the first pair is in sequence by its times
\* and has the edge, the second has equal orders, no timing and no edge
C14_Witness ==
    /\ pc = "normalized"
    /\ \E p \in DOMAIN graph.nodesById :
          LET ids == graph.nodesById[p].childIds IN
          /\ Len(ids) = 3
          /\ ~IsNull(graph.nodesById[ids[1]].finishTime)
          /\ ~IsNull(graph.nodesById[ids[2]].startTime)
          /\ HasSiblingEdge(graph, ids[1], ids[2])
          /\ IsNull(graph.nodesById[ids[3]].startTime)
          /\ ~IsNull(graph.nodesById[ids[2]].order)
          /\ graph.nodesById[ids[2]].order = graph.nodesById[ids[3]].order
          /\ ~HasSiblingEdge(graph, ids[2], ids[3])

\* ---------------------------------------------------- properties: engines
\* Two activities do not overlap in time: one finishes no later than the
\* other starts
Disjoint(a, b) == a.finishMs <= b.startMs \/ b.finishMs <= a.startMs

\* Sets of positions of pairwise non-overlapping activities
Chains(acts) ==
    {chain \in SUBSET (1..Len(acts)) :
        \A i, j \in chain : i # j => Disjoint(acts[i], acts[j])}

ChainDuration(acts, chain) ==
    SumSeq([i \in 1..Len(acts) |-> IF i \in chain THEN acts[i].durationMs ELSE 0])

\* The largest total duration of a chain
LongestChainDuration(acts) ==
    CHOOSE d \in {ChainDuration(acts, chain) : chain \in Chains(acts)} :
        \A chain \in Chains(acts) : ChainDuration(acts, chain) <= d

ActivityOf(acts, id) == acts[CHOOSE i \in 1..Len(acts) : acts[i].id = id]

\* C1: for every list of timed activities (start < finish, durationMs =
\* finish - start), computeCriticalPath's durationMs is the maximum total
\* duration over the sets of pairwise non-overlapping activities.
C1_CriticalPathIsLongestChain ==
    pc = "criticalPath" =>
        criticalPath.durationMs = LongestChainDuration(activities)

\* C1 witness: three activities, two of which overlap, and a path of two
C1_Witness ==
    /\ pc = "criticalPath"
    /\ Len(activities) = 3
    /\ \E i, j \in 1..3 : i # j /\ ~Disjoint(activities[i], activities[j])
    /\ \E i, j \in 1..3 : activities[i].finishMs = activities[j].startMs
    /\ Len(criticalPath.nodeIds) = 2

\* C2: the nodeIds of the critical path are distinct ids of input
\* activities in chronological order, each one finishing no later than the
\* next one starts, and their durations add up to the returned durationMs.
C2_PathIsChronologicalChain ==
    pc = "criticalPath" =>
        LET ids == criticalPath.nodeIds IN
        /\ \A i \in 1..Len(ids) : \E k \in 1..Len(activities) : activities[k].id = ids[i]
        /\ \A i, j \in 1..Len(ids) : i # j => ids[i] # ids[j]
        /\ \A i \in 1..(Len(ids) - 1) :
              ActivityOf(activities, ids[i]).finishMs <= ActivityOf(activities, ids[i + 1]).startMs
        /\ SumSeq([i \in 1..Len(ids) |-> ActivityOf(activities, ids[i]).durationMs])
              = criticalPath.durationMs

\* C2 witness: a path of two activities given in reverse chronological
\* order, a third activity left out
C2_Witness ==
    /\ pc = "criticalPath"
    /\ Len(activities) = 3
    /\ Len(criticalPath.nodeIds) = 2
    /\ \E i, j \in 1..3 :
          /\ i < j
          /\ criticalPath.nodeIds = <<activities[j].id, activities[i].id>>

\* ---------------------------------------------------- properties: analysis
\* The largest number of activities running at one instant, an activity
\* running from its start up to, not including, its finish
PeakOverlap(acts) ==
    LET running(t) == Cardinality({i \in 1..Len(acts) :
                                      acts[i].startMs <= t /\ t < acts[i].finishMs})
    IN CHOOSE m \in {running(acts[i].startMs) : i \in 1..Len(acts)} :
          \A i \in 1..Len(acts) : running(acts[i].startMs) <= m

\* The nodes below a node, at any depth
Descendants(g, id) ==
    {d \in DOMAIN g.nodesById : \E k \in 1..Len(g.keys) : Ancestor(g, d, k) = id}

\* The start times of the step-like descendants of a node
DescendantStepStarts(g, id) ==
    {Val(g.nodesById[d].startTime) :
        d \in {x \in Descendants(g, id) :
                  isStepLikeType(g.nodesById[x].type) /\ ~IsNull(g.nodesById[x].startTime)}}

\* C15: for every Job node, jobWaitById is max(0, E - job.start), E being the
\* earliest start among the job's step-like descendants at any depth, and 0
\* when the job has no start or no step-like descendant with a start.
C15_JobWaitIsEarliestStepDelay ==
    pc = "analyzed" =>
        LET g == analysis.graph
            waits == analysis.metrics.jobWaitById
        IN /\ DOMAIN waits = {id \in DOMAIN g.nodesById : g.nodesById[id].type = "Job"}
           /\ \A job \in DOMAIN waits :
                 LET starts == DescendantStepStarts(g, job) IN
                 IF IsNull(g.nodesById[job].startTime) \/ starts = {}
                 THEN waits[job] = 0
                 ELSE \E e \in starts :
                         /\ \A s \in starts : e <= s
                         /\ waits[job] = Max(0, e - Val(g.nodesById[job].startTime))

\* C15 witness: a job starting at 0 that waits MaxClock for a step that is
\* not its direct child
C15_Witness ==
    /\ pc = "analyzed"
    /\ \E job \in DOMAIN analysis.metrics.jobWaitById :
          /\ analysis.graph.nodesById[job].startTime = Some(0)
          /\ analysis.metrics.jobWaitById[job] = MaxClock
          /\ \E d \in Descendants(analysis.graph, job) :
                /\ analysis.graph.nodesById[d].parentId # job
                /\ isStepLikeType(analysis.graph.nodesById[d].type)

\* The nodes of a set that have both times and a positive duration
Qualifying(g, ids) ==
    {id \in ids : HasBothTimes(g.nodesById[id]) /\ g.nodesById[id].durationMs > 0}

StepLikeNodes(g) == {id \in DOMAIN g.nodesById : isStepLikeType(g.nodesById[id].type)}
JobNodes(g) == {id \in DOMAIN g.nodesById : g.nodesById[id].type = "Job"}
LeafNodes(g) == {id \in DOMAIN g.nodesById : g.nodesById[id].childIds = <<>>}

\* The activities are the given nodes, with their times
ActivitiesAre(g, ids) ==
    /\ {analysis.activities[i].id : i \in 1..Len(analysis.activities)} = ids
    /\ Len(analysis.activities) = Cardinality(ids)
    /\ \A i \in 1..Len(analysis.activities) :
          LET act == analysis.activities[i] IN
          /\ Some(act.startMs) = g.nodesById[act.id].startTime
          /\ Some(act.finishMs) = g.nodesById[act.id].finishTime
    /\ Range(analysis.criticalPath.nodeIds) \subseteq ids
    /\ analysis.parallelization.enoughData => ids # {}

C3_CriticalPathWithinWallClock ==
    pc = "analyzed" =>
        /\ analysis.criticalPath.durationMs <= analysis.metrics.wallClockDurationMs
        /\ analysis.criticalPath.durationMs
              <= SumSeq([i \in 1..Len(analysis.activities) |->
                            analysis.activities[i].durationMs])

\* C3 witness: a critical path shorter than the wall clock and than the
\* summed durations
C3_Witness ==
    /\ pc = "analyzed"
    /\ analysis.criticalPath.durationMs > 0
    /\ analysis.criticalPath.durationMs < analysis.metrics.wallClockDurationMs
    /\ analysis.criticalPath.durationMs
          < SumSeq([i \in 1..Len(analysis.activities) |-> analysis.activities[i].durationMs])

\* One Job with two Tasks, the second starting the instant the first
\* finishes, that together span the job
BackToBackTasks ==
    /\ Len(records) = 3
    /\ records[1].type = "Job" /\ records[1].parentId = ""
    /\ \A i \in {2, 3} : records[i].type = "Task" /\ records[i].parentId = records[1].id
    /\ \A i \in 1..3 : ~IsNull(records[i].startTime) /\ ~IsNull(records[i].finishTime)
    /\ records[2].startTime = records[1].startTime
    /\ records[2].finishTime = records[3].startTime
    /\ records[3].finishTime = records[1].finishTime

\* C4: in the sweep a finish is processed before a start at the same
\* timestamp, so an activity that starts the instant another finishes is not
\* counted as concurrent with it: maxConcurrency is the largest number of
\* activities running at one instant, and a Job with Task A and Task B back
\* to back has maxConcurrency = 1 and averageConcurrency = 1.
C4_FinishBeforeStartAtTies ==
    (pc = "analyzed" /\ analysis.parallelization.enoughData) =>
        /\ analysis.parallelization.maxConcurrency = PeakOverlap(analysis.activities)
        /\ BackToBackTasks =>
              /\ analysis.parallelization.maxConcurrency = 1
              /\ analysis.parallelization.averageConcurrency.num
                    = analysis.parallelization.averageConcurrency.den

\* ---------------------------------------------- properties: classification
\* The positions of the enabled rules whose condition matches the node
MatchingRules == {i \in 1..Len(rules) : rules[i].enabled /\ isRuleMatch(rules[i], stepNode)}

\* C5: if the override map has an entry for the node's id, classifyNode
\* returns that category with source "override" and matchedRuleId null,
\* whatever the rules are.
C5_OverrideWins ==
    (pc = "classified" /\ stepNode.id \in DOMAIN overrides) =>
        entry = Entry(overrides[stepNode.id], NoRuleId, "override")

\* C5 witness: an overridden node that an enabled rule matches
C5_Witness ==
    /\ pc = "classified"
    /\ stepNode.id \in DOMAIN overrides
    /\ MatchingRules # {}
    /\ entry.source = "override"

\* C6: without an override classifyNode returns the category and id of the
\* first rule in list order that is enabled and matches, with source "rule";
\* if no enabled rule matches it returns "unclassified", null, "default".
C6_FirstEnabledMatchWins ==
    (pc = "classified" /\ stepNode.id \notin DOMAIN overrides) =>
        IF MatchingRules = {}
        THEN entry = Entry("unclassified", NoRuleId, "default")
        ELSE LET first == CHOOSE i \in MatchingRules : \A j \in MatchingRules : i <= j
             IN entry = Entry(rules[first].category, rules[first].id, "rule")

\* C6 witness: the first rule matches but is disabled, the second is
\* enabled and matches, and the second is selected
C6_Witness ==
    /\ pc = "classified"
    /\ stepNode.id \notin DOMAIN overrides
    /\ Len(rules) = 2
    /\ ~rules[1].enabled /\ isRuleMatch(rules[1], stepNode)
    /\ rules[2].enabled /\ isRuleMatch(rules[2], stepNode)
    /\ entry = Entry(rules[2].category, rules[2].id, "rule")

\* The warnings a classification entry carries: ClassificationEntry has the
\* fields category, matchedRuleId and source only
WarningsOf(e) == IF "warnings" \in DOMAIN e THEN e.warnings ELSE <<>>

\* classifyNode evaluates the rule at position i: no override is set and no
\* enabled rule before it matches
RuleEvaluated(i) ==
    /\ stepNode.id \notin DOMAIN overrides
    /\ rules[i].enabled
    /\ \A j \in 1..(i - 1) : j \notin MatchingRules

\* The enabled regex rules with a malformed pattern that classifyNode
\* evaluates against a non-empty field value
MalformedRegexRules ==
    {i \in 1..Len(rules) :
        /\ RuleEvaluated(i)
        /\ rules[i].operator = "regex"
        /\ isMalformedPattern(rules[i].value)
        /\ Len(getFieldValue(stepNode, rules[i].field)) > 0}

\* C18: every recoverable anomaly leaves a warning; in particular, when
\* classifyNode evaluates a rule whose regular expression is malformed, the
\* result carries a warning.
C18_MalformedRegexLeavesWarning ==
    (pc = "classified" /\ MalformedRegexRules # {}) => WarningsOf(entry) # <<>>

\* --------------------------------------------------- properties: the App
\* The i-th pending read is a timeline upload whose analysis fails
FailedUpload(i) ==
    /\ TimelineReadSettles(i)
    /\ parseAndAnalyze(reads[i].file.content).threw

\* C17: when the analysis of an uploaded timeline fails, the error message
\* is shown and the previously loaded analysis, the selection and the rest
\* of the state stay as they were.
C17_FailedUploadRetainsState ==
    [][\A i \in 1..Len(reads) :
          FailedUpload(i) =>
              /\ app'.error = parseAndAnalyze(reads[i].file.content).message
              /\ app'.analysis = app.analysis
              /\ app'.selectedNodeId = app.selectedNodeId
              /\ app'.fileName = app.fileName
              /\ app'.searchText = app.searchText
              /\ app'.rules = app.rules
              /\ app'.overrides = app.overrides]_vars

\* The version of a rule file is exactly the supported constant
SupportedVersion(v) == v.type = "number" /\ v.whole = 1 /\ v.tenths = 0

\* The i-th pending read is an import of a JSON object
ObjectImport(i) == RulesReadSettles(i) /\ reads[i].file.content.json = "object"

UnsupportedVersionMessage(v) == "Unsupported rule file version '" \o v.text \o "'."

\* C19: parseRuleSet throws for every payload whose version is not exactly 1,
\* with a message naming the unsupported value, and after such a failed
\* import the rules and the overrides of the application are what they were
\* before it.
C19_UnsupportedVersionLeavesRules ==
    [][\A i \in 1..Len(reads) :
          (ObjectImport(i) /\ ~SupportedVersion(reads[i].file.content.version)) =>
              LET content == reads[i].file.content IN
              /\ \A generated \in GeneratedFor(reads[i].file) :
                    parseRuleSet(content, generated) =
                        Thrown(UnsupportedVersionMessage(content.version))
              /\ app'.error = UnsupportedVersionMessage(content.version)
              /\ app'.rules = app.rules
              /\ app'.overrides = app.overrides]_vars

\* C19 witness: a rule file was imported, and a later import of a file of
\* version 2 has failed and left the imported rules and overrides in place
C19_Witness ==
    /\ app.error = "Unsupported rule file version '2'."
    /\ app.rules # createDefaultRules
    /\ app.overrides # <<>>

\* C20: an import of a rule file with the supported version and a rules
\* array succeeds whatever the shape of its entries: no error is set and
\* every entry has become a rule.
C20_MalformedEntriesAreRepaired ==
    [][\A i \in 1..Len(reads) :
          (/\ ObjectImport(i)
           /\ SupportedVersion(reads[i].file.content.version)
           /\ reads[i].file.content.hasRulesArray) =>
              /\ app'.error = NoString
              /\ Len(app'.rules) = Len(reads[i].file.content.rules)]_vars

\* ------------------------------------------- properties: ties, coverage, waits
\* Two activities with the same start and the same finish
SameInterval(a, b) == a.startMs = b.startMs /\ a.finishMs = b.finishMs

\* C24: in the dynamic program over the activities sorted by finish then
\* start, activity i is chosen exactly when duration(i) +
\* best[predecessor(i) + 1] >= best[i - 1]; a tie includes the activity, and
\* of two activities with the same start and finish the one earlier in the
\* input order is not in the returned path.
C24_TieIncludesActivity ==
    pc = "criticalPath" =>
        LET ordered  == orderActivities(activities)
            previous == previousIndexes(ordered)
            table    == bestTable(ordered)
        IN /\ \A i \in 1..Len(ordered) :
                 table.choose[i + 1] =
                     (ordered[i].durationMs + table.best[previous[i] + 2] >= table.best[i])
           /\ \A p, q \in 1..Len(activities) :
                 (p < q /\ SameInterval(activities[p], activities[q])) =>
                     activities[p].id \notin Range(criticalPath.nodeIds)

\* C24 witness: two activities with the same interval, the second of which
\* is on the path, and a third one before them
C24_Witness ==
    /\ pc = "criticalPath"
    /\ Len(activities) = 3
    /\ SameInterval(activities[1], activities[2])
    /\ activities[3].finishMs <= activities[1].startMs
    /\ criticalPath.nodeIds = <<activities[3].id, activities[2].id>>

\* The length of the union of the intervals of the activities
UnionLength(acts) ==
    Cardinality(UNION {acts[i].startMs..(acts[i].finishMs - 1) : i \in 1..Len(acts)})

\* C25: the covered time of the sweep is the length of the union of the
\* activity intervals, idleWallClockMs = max(0, wallClockMs - covered), and
\* for every analysis with at least one activity covered + idleWallClockMs =
\* wallClockDurationMs and 0 <= timelineCoverageRatio <= 1.
C25_CoveredIsUnionOfIntervals ==
    (pc = "analyzed" /\ Len(analysis.activities) >= 1) =>
        LET par  == analysis.parallelization
            wall == analysis.metrics.wallClockDurationMs
        IN /\ par.coveredMs = UnionLength(analysis.activities)
           /\ par.idleWallClockMs = Max(0, wall - par.coveredMs)
           /\ par.coveredMs + par.idleWallClockMs = wall
           /\ par.timelineCoverageRatio.den > 0
           /\ 0 <= par.timelineCoverageRatio.num
           /\ par.timelineCoverageRatio.num <= par.timelineCoverageRatio.den

\* C25 witness: two activities that overlap, counted once, a third one
\* after a gap, and the gap as idle time
C25_Witness ==
    /\ pc = "analyzed"
    /\ Len(analysis.activities) = 3
    /\ SameInterval(analysis.activities[1], analysis.activities[2])
    /\ analysis.activities[3].startMs > analysis.activities[1].finishMs
    /\ analysis.parallelization.coveredMs =
          analysis.activities[1].durationMs + analysis.activities[3].durationMs
    /\ analysis.parallelization.idleWallClockMs > 0

\* C29: for every timeline shortestNoWaitDurationMs <= wallClockDurationMs.
C29_NoWaitWithinWallClock ==
    pc = "analyzed" =>
        analysis.metrics.shortestNoWaitDurationMs <= analysis.metrics.wallClockDurationMs

\* ------------------------------------------- properties: the stored rule set
\* A stored item that is absent, not JSON, of an unsupported version or
\* without a rules array
CorruptItem(item) ==
    \/ item = NoItem
    \/ item.json = "invalid"
    \/ item.json = "object" /\ ~SupportedVersion(item.version)
    \/ item.json = "object" /\ ~item.hasRulesArray

\* C22: at startup a stored rule state that is absent, not valid JSON, of an
\* unsupported version or without a rules array is treated as no stored
\* state: the first render always completes, the rules are
\* createDefaultRules(), the overrides are empty and no error is set.
C22_CorruptStorageGivesDefaults ==
    /\ pc = "unmounted" => ENABLED Mount
    /\ (pc = "mounted" /\ CorruptItem(storage)) =>
           /\ app.rules = createDefaultRules
           /\ app.overrides = <<>>
           /\ app.error = NoString

\* C22 witness: App has rendered from a stored rule set of version 2 that
\* holds a rule and an override
C22_Witness ==
    /\ pc = "mounted"
    /\ storage.json = "object"
    /\ storage.version = JsonNumber(2, 0)
    /\ Len(storage.rules) > 0
    /\ app.rules = createDefaultRules
    /\ app.overrides = <<>>

\* C28: after any sequence of rule and override mutations, a reload with
\* working storage restores the rules and the overrides that were in force
\* before it, also when every rule has been removed.
C28_ReloadRestoresRules ==
    [][Reload => (app'.rules = app.rules /\ app'.overrides = app.overrides)]_vars

\* ------------------------------------------- serialize and parse a rule set
\* The override maps of a rule set: some of three node ids, each with one of
\* the known categories; a node id is any string
OverriddenNodeIds == {"a", "b", "__proto__"}
ValidOverrideMaps ==
    UNION {[nodeIds -> WORK_CATEGORIES] : nodeIds \in SUBSET OverriddenNodeIds}

\* The rule set { version, rules, overrides } held in rules and overrides
RuleSetHeld == [version |-> RULE_SET_VERSION, rules |-> rules, overrides |-> overrides]

InitRoundTrip ==
    /\ IdleTimeline
    /\ IdleEngines
    /\ IdleCategories
    /\ analysis = NoResult
    /\ stepNode = NoResult
    /\ app = NoResult
    /\ reads = <<>>
    /\ pc = "input"
    /\ rules = createDefaultRules
    /\ overrides \in ValidOverrideMaps
    /\ storage = NoItem
    /\ entry = NoResult

SerializeCall ==
    /\ pc = "input"
    /\ pc' = "serialized"
    /\ storage' = serializeRuleSet(RuleSetHeld)
    /\ UNCHANGED <<timelineVars, engineVars, analysis, classifyVars, app, reads, categoriesVars>>

ParseCall ==
    /\ pc = "serialized"
    /\ pc' = "parsed"
    /\ \E generated \in GeneratedForItem(storage) :
          entry' = parseRuleSet(storage, generated)
    /\ UNCHANGED <<timelineVars, engineVars, analysis, stepNode, rules, overrides, appVars, categoriesVars>>

NextRoundTrip == SerializeCall \/ ParseCall

SpecRoundTrip == InitRoundTrip /\ [][NextRoundTrip]_vars

\* C21: for the default rules and any override map with known categories,
\* parseRuleSet(serializeRuleSet(ruleSet)) returns the same version, the
\* same rules in the same order, field by field, and the same overrides.
C21_RoundTrip ==
    pc = "parsed" =>
        /\ ~entry.threw
        /\ entry.value.version = RULE_SET_VERSION
        /\ Len(entry.value.rules) = Len(rules)
        /\ \A i \in 1..Len(rules) :
              /\ entry.value.rules[i].id = rules[i].id
              /\ entry.value.rules[i].label = rules[i].label
              /\ entry.value.rules[i].enabled = rules[i].enabled
              /\ entry.value.rules[i].field = rules[i].field
              /\ entry.value.rules[i].operator = rules[i].operator
              /\ entry.value.rules[i].value = rules[i].value
              /\ entry.value.rules[i].category = rules[i].category
        /\ DOMAIN entry.value.overrides = DOMAIN overrides
        /\ \A nodeId \in DOMAIN overrides :
              entry.value.overrides[nodeId] = overrides[nodeId]

\* ------------------------------------- the priority-integer classification
\* ruleMatches: the test of a rule on the node's name
ruleMatches(rule, name) ==
    CASE rule.matchType = "exact"      -> name = rule.pattern
      [] rule.matchType = "contains"   -> includes(toLowerCase(name), toLowerCase(rule.pattern))
      [] rule.matchType = "startsWith" -> startsWith(toLowerCase(name), toLowerCase(rule.pattern))
      [] rule.matchType = "regex"      ->
            IF isMalformedPattern(rule.pattern) THEN FALSE
            ELSE regexTest(rule.pattern, name)

\* (a, b) => a.priority - b.priority
byPriority(ruleList) ==
    [p \in Range(ruleList) \X Range(ruleList) |-> p[1].priority - p[2].priority]

\* The loop of matchCategory over the sorted rules, null (NoString) at its end
RECURSIVE firstRuleMatch(_, _, _)
firstRuleMatch(sorted, name, i) ==
    IF i > Len(sorted) THEN NoString
    ELSE IF ruleMatches(sorted[i], name) THEN sorted[i].categoryId
    ELSE firstRuleMatch(sorted, name, i + 1)

\* matchCategory: an override value is a category id, a non-empty string
matchCategory(ruleList, overrideMap, n) ==
    IF n.id \in DOMAIN overrideMap THEN overrideMap[n.id]
    ELSE firstRuleMatch(sortArray(ruleList, byPriority(ruleList)), n.name, 1)

\* The rule of the classification engine that corresponds to a rule of the
\* priority-integer variant: on the field name, enabled, "exact" as "equals"
correspondingRule(rule) ==
    [id |-> rule.id, label |-> "", enabled |-> TRUE, field |-> "name",
     operator |-> IF rule.matchType = "exact" THEN "equals" ELSE rule.matchType,
     value |-> rule.pattern, category |-> rule.categoryId]

\* The corresponding rules, pre-sorted by priority ascending
correspondingRules(ruleList) ==
    LET sorted == sortArray(ruleList, byPriority(ruleList)) IN
    [i \in 1..Len(sorted) |-> correspondingRule(sorted[i])]

MatchTypes == {"exact", "contains", "startsWith", "regex"}

\* A list of n rules of the priority-integer variant: the i-th rule has the
\* i-th id and category
PriorityRuleList(n, pattern, matchType, priority) ==
    [i \in 1..n |->
        [id |-> RuleIds[i], pattern |-> pattern[i], matchType |-> matchType[i],
         categoryId |-> RuleCategories[i], priority |-> priority[i]]]

\* Both variants on a node, a rule list and an override map
InitVariants ==
    /\ IdleTimeline
    /\ IdleEngines
    /\ IdleApp
    /\ analysis = NoResult
    /\ pc = "input"
    /\ stepNode \in ClassifiedNodes
    /\ \E n \in 0..MaxRules :
          \E pattern \in [1..n -> RuleValues] :
             \E matchType \in [1..n -> MatchTypes] :
                \E priority \in [1..n -> 0..(MaxRules - 1)] :
                   priorityRules = PriorityRuleList(n, pattern, matchType, priority)
    /\ rules = correspondingRules(priorityRules)
    /\ overrides \in OverrideMaps
    /\ entry = NoResult
    /\ matched = NoResult

MatchCall ==
    /\ pc = "classified"
    /\ pc' = "matched"
    /\ matched' = [categoryId |-> matchCategory(priorityRules, overrides, stepNode)]
    /\ UNCHANGED <<timelineVars, engineVars, analysis, classifyVars, appVars, priorityRules>>

NextVariants == ClassifyCall \/ MatchCall

SpecVariants == InitVariants /\ [][NextVariants]_vars

\* C26: for rules on the node name, matchCategory and classifyNode on the
\* corresponding rules pre-sorted by priority select the same rule, or both
\* select none, after the same override lookup.
C26_VariantsAgree ==
    pc = "matched" =>
        CASE entry.source = "override" -> matched.categoryId = entry.category
          [] entry.source = "rule"     -> matched.categoryId = entry.category
          [] OTHER                     -> matched.categoryId = NoString

\* ------------------------------------------ the rules page: rule priorities
\* The render of the rules page: rules.sort((a, b) => a.priority - b.priority)
\* sorts the array of the state in place
renderRules(ruleList) == sortArray(ruleList, byPriority(ruleList))

\* The ids of the rules in a list
IdsOf(ruleList) == {ruleList[i].id : i \in 1..Len(ruleList)}

\* No rules are stored: loadState returns the empty state
InitPriority ==
    /\ IdleTimeline
    /\ IdleEngines
    /\ IdleClassify
    /\ IdleApp
    /\ analysis = NoResult
    /\ pc = "rules page"
    /\ priorityRules = <<>>
    /\ matched = NoResult

\* handleAddRule with a non-blank pattern and a category chosen: addRule
\* appends the rule with priority = rules.length and a generated id
handleAddRule ==
    /\ pc = "rules page"
    /\ Len(priorityRules) <= MaxRules
    /\ \E generated \in Range(RuleIds) \ IdsOf(priorityRules) :
          \E matchType \in {"contains", "exact"} :
             priorityRules' = renderRules(Append(priorityRules,
                 [id |-> generated, pattern |-> <<"a">>, matchType |-> matchType,
                  categoryId |-> "setup", priority |-> Len(priorityRules)]))
    /\ UNCHANGED <<pc, timelineVars, engineVars, analysis, classifyVars, appVars, matched>>

\* The delete button of a rule: removeRule(rule.id) filters the list
removeRuleById ==
    /\ pc = "rules page"
    /\ \E id \in IdsOf(priorityRules) :
          priorityRules' = renderRules(SelectSeq(priorityRules, LAMBDA r : r.id # id))
    /\ UNCHANGED <<pc, timelineVars, engineVars, analysis, classifyVars, appVars, matched>>

\* moveRule(index, direction) on the displayed list: swap with the
\* neighbour, renumber by position, reorderRules
moveRule ==
    /\ pc = "rules page"
    /\ \E index \in 0..(Len(priorityRules) - 1), direction \in {-1, 1} :
          LET target == index + direction IN
          /\ target >= 0
          /\ target < Len(priorityRules)
          /\ LET newRules == [i \in 1..Len(priorityRules) |->
                      IF i = index + 1 THEN priorityRules[target + 1]
                      ELSE IF i = target + 1 THEN priorityRules[index + 1]
                      ELSE priorityRules[i]]
                 reordered == [i \in 1..Len(newRules) |->
                                  [newRules[i] EXCEPT !.priority = i - 1]]
             IN priorityRules' = renderRules(reordered)
    /\ UNCHANGED <<pc, timelineVars, engineVars, analysis, classifyVars, appVars, matched>>

NextPriority == handleAddRule \/ removeRuleById \/ moveRule

SpecPriority == InitPriority /\ [][NextPriority]_vars

\* C27: after any sequence of rule additions (priority = current rule
\* count), removals and moves, the priorities of the rules are pairwise
\* distinct and are exactly 0..n-1.
C27_PrioritiesContiguous ==
    pc = "rules page" =>
        /\ \A i, j \in 1..Len(priorityRules) :
              i # j => priorityRules[i].priority # priorityRules[j].priority
        /\ {priorityRules[i].priority : i \in 1..Len(priorityRules)}
              = 0..(Len(priorityRules) - 1)

\* ------------------------------------------------ properties: timeline loads
\* C23: loading a timeline, whether the load succeeds or fails, leaves the
\* rule list and the override map unchanged; once App is running only the
\* rule operations, the override of the selected node and a successful rule
\* import change them.
C23_TimelineLoadKeepsRules ==
    /\ [][(TimelineFileSelected \/ TimelineFileRead) =>
              (app'.rules = app.rules /\ app'.overrides = app.overrides)]_vars
    /\ [][(/\ pc = "app"
           /\ pc' = "app"
           /\ (app'.rules # app.rules \/ app'.overrides # app.overrides)) =>
              \/ addRule \/ updateRule \/ removeRule \/ resetRules
              \/ setSelectedNodeOverride
              \/ RulesFileRead]_vars

\* C23 witness: a timeline is loaded, and a second load has failed, next to
\* stored rules and an override set on a node of the loaded timeline
C23_Witness ==
    /\ pc = "app"
    /\ app.error = "Timeline payload must include a records array."
    /\ app.fileName = "job.json"
    /\ app.rules # createDefaultRules
    /\ "b" \in DOMAIN app.overrides

\* What App shows once the timeline file has been read and analyzed
Shows(state, file) ==
    LET loaded == parseAndAnalyze(file.content) IN
    /\ state.analysis = loaded.value
    /\ state.fileName = file.name
    /\ state.selectedNodeId = firstSelection(loaded.value.graph)

\* Two reads of valid timeline files are pending, file A selected before
\* file B
TwoUploadsPending ==
    /\ Len(reads) = 2
    /\ \A i \in 1..2 :
          /\ reads[i].handler = "timeline"
          /\ ~parseAndAnalyze(reads[i].file.content).threw

\* C30: file A is selected and then file B before A has been read; whichever
\* read settles first, once the other has settled too the analysis, the
\* fileName and the selection are those of B.
C30_LastSelectedFileWins ==
    [][\A first \in 1..2 :
          (TwoUploadsPending /\ TimelineReadSettles(first)) =>
              Shows(onTimelineFileRead(app', reads[3 - first].file), reads[2].file)]_vars

====
